---- MODULE Spec2Model ----
(***************************************************************************)
(* Verification model of the MCX option-chain server: the margin batch     *)
(* fetcher of the metrics engine (services/kite.ts, services/ticker.ts),   *)
(* the coordinator/worker sharding protocol (coordinator main, worker.ts)  *)
(* and the per-client snapshot filter (app.ts).                            *)
(***************************************************************************)
EXTENDS Integers, Sequences, FiniteSets, TLC

(***************************************************************************)
(* Reference data.  The instrument table is an input of the program (the   *)
(* relational reference store); a small table stands for it.               *)
(***************************************************************************)

\* shared/config.ts: the three worker groups, one process per group.
WORKER_GROUPS ==
  << << "GOLD", "GOLDM", "COPPER" >>,
     << "SILVER", "SILVERM", "ZINC" >>,
     << "CRUDEOIL", "CRUDEOILM", "NATURALGAS", "NATGASMINI" >> >>

\* shared/config.ts: Object.keys(CONFIG), the symbols of an unfiltered engine.
CONFIG_SYMBOLS ==
  {"GOLD", "GOLDM", "SILVER", "SILVERM", "CRUDEOIL", "CRUDEOILM",
   "NATURALGAS", "NATGASMINI", "COPPER", "ZINC"}

\* Rows of instrumentsTable with instrumentType CE/PE (db/schema.ts).  An
\* expiry is the number yyyymmdd of its ISO date, which orders as the ISO
\* strings do; strikes and prices are counted in strike steps.
Instruments ==
  { [instrumentToken |-> 101, tradingsymbol |-> "GOLD25DEC70000CE", name |-> "GOLD",
     instrumentType |-> "CE", strike |-> 1, expiry |-> 20251224],
    [instrumentToken |-> 102, tradingsymbol |-> "COPPER25DEC900PE", name |-> "COPPER",
     instrumentType |-> "PE", strike |-> 1, expiry |-> 20251223],
    [instrumentToken |-> 201, tradingsymbol |-> "SILVER25DEC90000CE", name |-> "SILVER",
     instrumentType |-> "CE", strike |-> 1, expiry |-> 20251224] }

\* Rows of instrumentsTable with instrumentType FUT.
Futures ==
  { [instrumentToken |-> 11, name |-> "GOLD", expiry |-> 20260205],
    [instrumentToken |-> 12, name |-> "COPPER", expiry |-> 20251231],
    [instrumentToken |-> 21, name |-> "SILVER", expiry |-> 20260305] }

Tokens == { i.instrumentToken : i \in Instruments }

InstrumentOf(token) == CHOOSE i \in Instruments : i.instrumentToken = token

\* Ascending sequence of a finite set of numbers: the order in which
\* Object.values() walks the integer keys of a record.
RECURSIVE SortedSeq(_)
SortedSeq(S) ==
  IF S = {} THEN << >>
  ELSE LET m == CHOOSE x \in S : \A y \in S : x <= y
       IN  << m >> \o SortedSeq(S \ {m})

Range(s) == { s[k] : k \in 1..Len(s) }

(***************************************************************************)
(* Bounds of the model.                                                    *)
(***************************************************************************)

\* Largest margin total the pricer quotes (0 is "no total": a failed symbol).
MaxTotal == 1

\* Batch size of updateOrderMargins, scaled down: the code batches by 400
\* (ticker.ts:236); a table of three instruments needs a batch of 2 for a
\* run to have more than one batch.
ChunkSize == 2

\* kite.ts:18
MAX_RETRIES == 3

\* WebSocket clients connected at the same time.
MaxClients == 2

\* WebSocket objects one browser client creates.
MaxSockets == 7

\* Times the browser client's component calls connect().
MaxMounts == 2

\* optionChain messages of one worker that can wait on its channel.
MaxInFlight == 1

\* Largest strike of the option rows a filter call is tried on.
MaxStrike == 3

\* Largest last price of a future, in strike steps (0: no tick yet).
MaxPrice == 2

\* Largest sdMultiplier of a subscribe message.
MaxSd == 2

\* subscribeAll calls of one engine.
MaxSubscribes == 2

\* Largest best bid of an option tick.
MaxBid == 1

\* Largest annualized volatility of a quote or of a numeric override.
MaxAv == 2

\* Last day of the wall clock; day 0 is Friday 31 October 2025.
MaxDay == 3

\* utils/market-minutes.ts (market-minutes-cache.ts:346-350)
MORNING_SESSION_MINUTES == 480
EVENING_SESSION_DST_MINUTES == 390
EVENING_SESSION_NON_DST_MINUTES == 415
FULL_DAY_DST_MINUTES == MORNING_SESSION_MINUTES + EVENING_SESSION_DST_MINUTES
FULL_DAY_NON_DST_MINUTES == MORNING_SESSION_MINUTES + EVENING_SESSION_NON_DST_MINUTES

Totals == 0..MaxTotal

(***************************************************************************)
(* State.                                                                  *)
(***************************************************************************)
VARIABLES
  \* one metrics engine (TickerService) and its margin fetcher
  optionChain,        \* TickerService.optionChain: token -> working record
  isFetchingMargins,  \* TickerService.isFetchingMargins
  marginRuns,         \* the updateOrderMargins invocations that have not returned
  lastFetch,          \* what the last finished getOrderMargins call returned and logged
  dataCallback,       \* TickerService.dataCallback is set (worker mode)
  clients,            \* TickerService.clients: clientId -> subscription.symbols
  engineSent,         \* clientId -> the last optionChain message the engine sent to it
  hook,               \* one browser client's useWebSocket: its sockets, refs and timers
  \* the coordinator process
  coordPc,            \* where main() stands: verify, awaiting, delay, steady, exited
  coordExit,          \* running, or the exit code: exit0, exit1
  serverStarted,      \* serve() has been called
  readyPromise,       \* worker -> pending | resolved | rejected
  timeoutArmed,       \* worker -> its 30 s readiness timer is still set
  workerKilled,       \* worker -> ChildProcess.killed
  errorEvent,         \* worker -> an 'error' event of the ChildProcess is due
  exitEmitted,        \* worker -> the 'exit' event of the ChildProcess was emitted
  shutdownPc,         \* where shutdown() stands: idle, waiting, done
  shutdownExitSeen,   \* workers whose exit promise of shutdown() has resolved
  aggregatedOptionChain, \* keys (tokens) of the aggregate record
  lastSnapshot,       \* worker -> keys of the last optionChain message received from it
  contributors,       \* token -> workers whose messages put that key into the aggregate
  \* the coordinator's app (app.ts)
  latestAliased,      \* latestOptionChain is the aggregate object (else the initial {})
  connectedClients,   \* clientId -> subscription.symbols
  clientLast,         \* clientId -> the last optionChain message sent to it
  \* the worker processes
  wPc,                \* worker -> unspawned, session, calendar, volatility, ticker, ready, exited
  wExit,              \* worker -> running, exit0, exit1, killed
  feedConnected,      \* worker -> its market-data feed is connected
  sigterm,            \* worker -> a SIGTERM is pending for it
  toCoord,            \* worker -> FIFO of its messages to the coordinator
  toWorker,           \* worker -> FIFO of the coordinator's messages to it
  workerChain,        \* worker -> keys of its engine's optionChain
  runtimeCache,       \* worker -> its market-minutes cache: empty, loaded, failed
  \* contract selection of one engine (TickerService.subscribe)
  filterCall,         \* the strike filter applied to one (underlying, expiry): arguments, result
  symbolsFilter,      \* TickerService.symbolsFilter
  subscribedTokens,   \* TickerService.subscribedTokens
  futureLtps,         \* TickerService.futureLtps: underlying -> future expiry -> last price
  subscribeRuns,      \* the subscribeAll calls in flight, each at an await
  selHist,            \* history: the subscribeAll calls made, the last one that ended
  upstream,           \* the requests the last selection step sent to the feed (KiteTicker)
  \* market minutes (market-minutes-cache.ts)
  now,                \* the wall clock in India: day, minute of the day
  holidayCache,       \* the module's holidayCache: null or date -> holiday type
  expiryDate,         \* the expiry string the minute queries are made with
  expiryMinutesMap,   \* MarketMinutesCache.expiryMinutesMap
  minutesCall,        \* the last getMarketMinutesTillExpiry call: clock, result
  rangeCall,          \* a calculateMarketMinutesInRange call: arguments, result
  \* the sigma chain (market-minutes-cache.ts) and the selection bounds
  sigmaXICall,        \* a calculateSigmaXI call: arguments, result
  sigmaCall,          \* a sigma chain of one expiry and its bounds: arguments, results
  \* the volatility service (services/volatility.ts) and the settings store
  volValues,          \* VolatilityService.values: underlying -> sample
  volPolls,           \* underlying -> where its poll stands, how its last call ended
  vixSetting,         \* settings store: numeric-VIX underlying -> VIX_<symbol>
  \* the recompute timer of one engine (TickerService.calculateOptions)
  lastCycle           \* the last recompute cycle: the live entries, those with a sample,
                      \* those skipped and recomputed, what was published, and the
                      \* published tokens that the cycle before had left out

marginVars == << optionChain, isFetchingMargins, marginRuns, lastFetch >>

coordVars ==
  << coordPc, coordExit, serverStarted, readyPromise, timeoutArmed, workerKilled,
     errorEvent, exitEmitted, shutdownPc, shutdownExitSeen, aggregatedOptionChain,
     lastSnapshot, contributors >>

appVars == << latestAliased, connectedClients, clientLast >>

workerVars ==
  << wPc, wExit, feedConnected, sigterm, toCoord, toWorker, workerChain, runtimeCache >>

shardVars == << coordVars, appVars, workerVars >>

wsVars == << dataCallback, clients, engineSent, hook >>

selVars ==
  << filterCall, symbolsFilter, subscribedTokens, futureLtps, subscribeRuns, selHist,
     upstream >>

calVars == << now, holidayCache, expiryDate, expiryMinutesMap, minutesCall, rangeCall >>

sigmaVars == << sigmaXICall, sigmaCall >>

volVars == << volValues, volPolls, vixSetting >>

cycleVars == << lastCycle >>

metricVars == << sigmaVars, volVars, cycleVars >>

vars == << marginVars, shardVars, wsVars, selVars, calVars, metricVars >>

(***************************************************************************)
(* Margin batch fetcher: getOrderMargins (services/kite.ts) and            *)
(* TickerService.updateOrderMargins (services/ticker.ts).                  *)
(***************************************************************************)

\* es-toolkit chunk(arr, size): consecutive slices of at most `size` elements.
RECURSIVE chunk(_, _)
chunk(arr, size) ==
  IF arr = << >> THEN << >>
  ELSE IF Len(arr) <= size THEN << arr >>
  ELSE << SubSeq(arr, 1, size) >> \o chunk(SubSeq(arr, size + 1, Len(arr)), size)

\* Zeroed working record of a contract (ticker.ts:436-454), the fields the
\* margin fetcher reads and writes.
NewEntry(token) ==
  [tradingsymbol |-> InstrumentOf(token).tradingsymbol,
   name          |-> InstrumentOf(token).name,
   bid           |-> 0,
   orderMargin   |-> 0,
   sellValue     |-> 0,
   returnValue   |-> 0,
   addedValue    |-> 0]

\* The margin RPC's answer to `orders`: one compact margin per order, in
\* order, with the total the pricer quotes for it.
RpcResponse(orders, totals) ==
  [k \in 1..Len(orders) |-> [tradingsymbol |-> orders[k], total |-> totals[k]]]

\* kite.ts:41  margins.filter((margin) => margin.total)
FetchedMargins(margins) == SelectSeq(margins, LAMBDA m : m.total # 0)

\* kite.ts:42  margins.filter((margin) => !margin.total).map(tradingsymbol)
FailedSymbols(margins) ==
  LET bad == SelectSeq(margins, LAMBDA m : m.total = 0)
  IN  [k \in 1..Len(bad) |-> bad[k].tradingsymbol]

\* Mutant of LoopContinues: one attempt too many.
LoopContinues_OffByOne(attempt, remainingSymbols) ==
  attempt <= MAX_RETRIES + 1 /\ remainingSymbols # << >>

\* Mutant of LoopContinues: no early break on an empty remainder.
LoopContinues_NoBreak(attempt, remainingSymbols) ==
  attempt <= MAX_RETRIES /\ remainingSymbols = remainingSymbols

\* kite.ts:34-35  the loop header and the early break
LoopContinues(attempt, remainingSymbols) ==
  attempt <= MAX_RETRIES /\ remainingSymbols # << >>

\* Variant of Rethrows: the last attempt swallows the exception as the
\* earlier ones do (what the specification of the fetcher describes).
Rethrows_Never(attempt) == FALSE

\* kite.ts:52  the last attempt rethrows
Rethrows(attempt) == attempt = MAX_RETRIES

\* kite.ts:31-39  a getOrderMargins call up to its first await: the first
\* request is on the wire.  `requests` records the symbol list of every RPC
\* call the invocation has issued.
NewFetch(tradingsymbols) ==
  [tradingsymbols   |-> tradingsymbols,
   allMargins       |-> << >>,
   remainingSymbols |-> tradingsymbols,
   attempt          |-> 1,
   requests         |-> << tradingsymbols >>]

NoFetch ==
  [outcome |-> "none", tradingsymbols |-> << >>, returned |-> << >>,
   failedLogged |-> << >>, resolved |-> << >>, requests |-> << >>, discarded |-> {}]

\* Mutant of MergeMargins: entries without a returned margin are zeroed.
MergeMargins_ZeroUnresolved(chain, margins, tsToTokenMap) ==
  [t \in DOMAIN chain |->
     LET hits == { k \in 1..Len(margins) : margins[k].tradingsymbol = chain[t].tradingsymbol }
     IN  IF hits = {} THEN [chain[t] EXCEPT !.orderMargin = 0]
         ELSE [chain[t] EXCEPT !.orderMargin = margins[CHOOSE k \in hits : TRUE].total]]

\* Mutant of MergeMargins: a margin of a token without an entry creates one.
RECURSIVE MergeMargins_Recreates(_, _, _)
MergeMargins_Recreates(chain, margins, tsToTokenMap) ==
  IF margins = << >> THEN chain
  ELSE LET margin == Head(margins)
           known  == margin.tradingsymbol \in DOMAIN tsToTokenMap
           token  == tsToTokenMap[margin.tradingsymbol]
           chain2 == IF known
                     THEN [t \in DOMAIN chain \cup {token} |->
                             IF t = token
                             THEN [(IF t \in DOMAIN chain THEN chain[t] ELSE NewEntry(t))
                                     EXCEPT !.orderMargin = margin.total]
                             ELSE chain[t]]
                     ELSE chain
       IN  MergeMargins_Recreates(chain2, Tail(margins), tsToTokenMap)

\* ticker.ts:243-255  merge of the returned margins into the live entries
RECURSIVE MergeMargins(_, _, _)
MergeMargins(chain, margins, tsToTokenMap) ==
  IF margins = << >> THEN chain
  ELSE LET margin == Head(margins)
           known  == margin.tradingsymbol \in DOMAIN tsToTokenMap
           token  == tsToTokenMap[margin.tradingsymbol]
           chain2 == IF known /\ token \in DOMAIN chain
                     THEN [chain EXCEPT ![token].orderMargin = margin.total]
                     ELSE chain
       IN  MergeMargins(chain2, Tail(margins), tsToTokenMap)

\* ticker.ts:226-241  updateOrderMargins up to its first await
NewRun ==
  LET options == SortedSeq(DOMAIN optionChain)
      symbols == [k \in 1..Len(options) |-> optionChain[options[k]].tradingsymbol]
      chunks  == chunk(symbols, ChunkSize)
  IN  [tsToTokenMap |-> [ts \in Range(symbols) |->
                           CHOOSE t \in DOMAIN optionChain : optionChain[t].tradingsymbol = ts],
       chunks       |-> Tail(chunks),
       fetch        |-> NewFetch(Head(chunks))]

RemoveAt(s, i) == SubSeq(s, 1, i - 1) \o SubSeq(s, i + 1, Len(s))

\* ticker.ts:246-251  the tokens of returned margins that have no entry in
\* the option chain: 'Option not found' is logged for each
NotFound(chain, margins, tsToTokenMap) ==
  { tsToTokenMap[margins[k].tradingsymbol] :
      k \in { j \in 1..Len(margins) : margins[j].tradingsymbol \in DOMAIN tsToTokenMap } }
    \ DOMAIN chain

\* Mutant of ChunkDone: a throwing fetch ends the run before the guard is
\* cleared.
ChunkDone_ThrowSkipsReset(i, outcome, returned, logged, f) ==
  LET run == marginRuns[i]
  IN  /\ optionChain' = MergeMargins(optionChain, returned, run.tsToTokenMap)
      /\ lastFetch' = [outcome        |-> outcome,
                       tradingsymbols |-> f.tradingsymbols,
                       returned       |-> returned,
                       failedLogged   |-> logged,
                       resolved       |-> f.allMargins,
                       requests       |-> f.requests,
                       discarded      |-> NotFound(optionChain, returned, run.tsToTokenMap)]
      /\ IF outcome = "thrown"
         THEN /\ marginRuns' = RemoveAt(marginRuns, i)
              /\ UNCHANGED isFetchingMargins
         ELSE IF run.chunks # << >>
         THEN /\ marginRuns' = [marginRuns EXCEPT
                                  ![i] = [run EXCEPT !.chunks = Tail(@),
                                                     !.fetch  = NewFetch(Head(run.chunks))]]
              /\ UNCHANGED isFetchingMargins
         ELSE /\ marginRuns' = RemoveAt(marginRuns, i)
              /\ isFetchingMargins' = FALSE

\* ticker.ts:239-262  getOrderMargins of run i has settled: merge what it
\* returned (nothing when it threw: the catch only logs), then go on to the
\* next batch or finish the run and clear the guard.
ChunkDone(i, outcome, returned, logged, f) ==
  LET run == marginRuns[i]
  IN  /\ optionChain' = MergeMargins(optionChain, returned, run.tsToTokenMap)
      /\ lastFetch' = [outcome        |-> outcome,
                       tradingsymbols |-> f.tradingsymbols,
                       returned       |-> returned,
                       failedLogged   |-> logged,
                       resolved       |-> f.allMargins,
                       requests       |-> f.requests,
                       discarded      |-> NotFound(optionChain, returned, run.tsToTokenMap)]
      /\ IF run.chunks # << >>
         THEN /\ marginRuns' = [marginRuns EXCEPT
                                  ![i] = [run EXCEPT !.chunks = Tail(@),
                                                     !.fetch  = NewFetch(Head(run.chunks))]]
              /\ UNCHANGED isFetchingMargins
         ELSE /\ marginRuns' = RemoveAt(marginRuns, i)
              /\ isFetchingMargins' = FALSE

\* kite.ts:34-64  the loop after attempt f.attempt left `f2` behind: either
\* the next request goes out, or the loop ends, the unresolved symbols are
\* logged and allMargins is returned.
AfterAttempt(i, f2) ==
  LET f3 == [f2 EXCEPT !.attempt = @ + 1]
  IN  IF LoopContinues(f3.attempt, f3.remainingSymbols)
      THEN /\ marginRuns' = [marginRuns EXCEPT
                               ![i].fetch = [f3 EXCEPT !.requests = Append(@, f3.remainingSymbols)]]
           /\ UNCHANGED << optionChain, isFetchingMargins, lastFetch >>
      ELSE ChunkDone(i, "returned", f3.allMargins, f3.remainingSymbols, f3)

\* kite.ts:39-45  the RPC of run i answers
RpcReturn(i) ==
  LET f == marginRuns[i].fetch
  IN  \E totals \in [1..Len(f.remainingSymbols) -> Totals] :
        LET margins == RpcResponse(f.remainingSymbols, totals)
        IN  AfterAttempt(i, [f EXCEPT !.allMargins = @ \o FetchedMargins(margins),
                                      !.remainingSymbols = FailedSymbols(margins)])

\* kite.ts:50-55  the RPC of run i fails with an exception
RpcThrow(i) ==
  LET f == marginRuns[i].fetch
  IN  IF Rethrows(f.attempt)
      THEN ChunkDone(i, "thrown", << >>, << >>, f)
      ELSE AfterAttempt(i, f)

\* Mutant of MarginGuard: the timer callback does not look at the flag.
MarginGuard_Off == FALSE

\* ticker.ts:195  the reentrancy guard of the margin timer
MarginGuard == isFetchingMargins

\* ticker.ts:194-201, 225-228, 262  a margin timer tick
MarginTick ==
  IF MarginGuard
  THEN UNCHANGED marginVars
  ELSE IF DOMAIN optionChain = {}
       THEN UNCHANGED marginVars
       ELSE /\ isFetchingMargins' = TRUE
            /\ marginRuns' = Append(marginRuns, NewRun)
            /\ UNCHANGED << optionChain, lastFetch >>

(***************************************************************************)
(* Sharding: the coordinator (coordinator main/shutdown) and its worker    *)
(* processes (worker.ts).                                                  *)
(***************************************************************************)

Workers == 1..Len(WORKER_GROUPS)

\* A message on the IPC channel (worker.ts:20-25).
Msg(type, data) == [type |-> type, data |-> data]

Running(w) == wPc[w] \notin {"unspawned", "exited"} /\ wExit[w] = "running"

InitStages == {"session", "calendar", "volatility", "ticker"}

\* worker.ts:52-83  the stage that follows a successful init stage
NextStage(stage) ==
  CASE stage = "session"    -> "calendar"
    [] stage = "calendar"   -> "volatility"
    [] stage = "volatility" -> "ticker"

\* ChildProcess.send: queued on the channel while the worker process lives;
\* on a closed channel the ChildProcess emits 'error' instead.
SendAll(type) ==
  /\ toWorker' = [w \in Workers |->
                    IF wPc[w] # "exited" THEN Append(toWorker[w], Msg(type, {}))
                    ELSE toWorker[w]]
  /\ errorEvent' = [w \in Workers |-> errorEvent[w] \/ wPc[w] = "exited"]

\* Mutant of Abort: exit 1 without killing the workers.
Abort_NoKill ==
  /\ coordPc' = "exited"
  /\ coordExit' = "exit1"
  /\ UNCHANGED << workerKilled, sigterm, serverStarted >>

\* coordinator main:102-109  the catch of Promise.all: kill (SIGTERM) every
\* worker, exit 1
Abort ==
  /\ workerKilled' = [w \in Workers |-> workerKilled[w] \/ Running(w)]
  /\ sigterm' = [w \in Workers |-> sigterm[w] \/ Running(w)]
  /\ coordPc' = "exited"
  /\ coordExit' = "exit1"
  /\ UNCHANGED serverStarted

\* coordinator main:66,79,85  reject() of worker w's ready promise; a
\* rejection of a pending promise rejects Promise.all, whose catch runs
\* before any other event is handled.
RejectReady(w) ==
  IF readyPromise[w] = "pending"
  THEN /\ readyPromise' = [readyPromise EXCEPT ![w] = "rejected"]
       /\ IF coordPc = "awaiting"
          THEN Abort
          ELSE UNCHANGED << workerKilled, sigterm, coordPc, coordExit, serverStarted >>
  ELSE UNCHANGED << readyPromise, workerKilled, sigterm, coordPc, coordExit, serverStarted >>

\* Mutant of AllReady: one ready worker is enough.
AllReady_Any(promises) == \E w \in Workers : promises[w] = "resolved"

\* coordinator main:100  Promise.all(workerReadyPromises) is fulfilled
AllReady(promises) == \A w \in Workers : promises[w] = "resolved"

\* coordinator main:34-42  getProfile fails: exit 1 before any worker exists
CoordSessionExpired ==
  /\ coordPc = "verify" /\ coordExit = "running"
  /\ coordPc' = "exited"
  /\ coordExit' = "exit1"
  /\ UNCHANGED << serverStarted, readyPromise, timeoutArmed, workerKilled, errorEvent,
                  exitEmitted, shutdownPc, shutdownExitSeen, aggregatedOptionChain,
                  lastSnapshot, contributors, appVars, workerVars >>

\* coordinator main:44-100  fork one worker per group, arm its timer, await all
CoordSpawnWorkers ==
  /\ coordPc = "verify" /\ coordExit = "running"
  /\ wPc' = [w \in Workers |-> "session"]
  /\ timeoutArmed' = [w \in Workers |-> TRUE]
  /\ coordPc' = "awaiting"
  /\ UNCHANGED << coordExit, serverStarted, readyPromise, workerKilled, errorEvent,
                  exitEmitted, shutdownPc, shutdownExitSeen, aggregatedOptionChain,
                  lastSnapshot, contributors, appVars,
                  wExit, feedConnected, sigterm, toCoord, toWorker, workerChain, runtimeCache >>

\* coordinator main:69-73, 100-121  'ready' from worker w; when it fulfils
\* Promise.all the server is started
CoordRecvReady(w) ==
  /\ coordExit = "running" /\ toCoord[w] # << >> /\ Head(toCoord[w]).type = "ready"
  /\ toCoord' = [toCoord EXCEPT ![w] = Tail(@)]
  /\ timeoutArmed' = [timeoutArmed EXCEPT ![w] = FALSE]
  /\ readyPromise' = [readyPromise EXCEPT ![w] = IF @ = "pending" THEN "resolved" ELSE @]
  /\ IF coordPc = "awaiting" /\ AllReady(readyPromise')
     THEN serverStarted' = TRUE /\ coordPc' = "delay"
     ELSE UNCHANGED << serverStarted, coordPc >>
  /\ UNCHANGED << coordExit, workerKilled, errorEvent, exitEmitted, shutdownPc,
                  shutdownExitSeen, aggregatedOptionChain, lastSnapshot, contributors,
                  appVars, wPc, wExit, feedConnected, sigterm, toWorker, workerChain, runtimeCache >>

\* coordinator main:77-80  'error' from worker w
CoordRecvError(w) ==
  /\ coordExit = "running" /\ toCoord[w] # << >> /\ Head(toCoord[w]).type = "error"
  /\ toCoord' = [toCoord EXCEPT ![w] = Tail(@)]
  /\ timeoutArmed' = [timeoutArmed EXCEPT ![w] = FALSE]
  /\ RejectReady(w)
  /\ UNCHANGED << errorEvent, exitEmitted, shutdownPc, shutdownExitSeen,
                  aggregatedOptionChain, lastSnapshot, contributors, appVars,
                  wPc, wExit, feedConnected, toWorker, workerChain, runtimeCache >>

\* coordinator main:83-86  the ChildProcess of worker w emits 'error'
CoordErrorEvent(w) ==
  /\ coordExit = "running" /\ errorEvent[w]
  /\ errorEvent' = [errorEvent EXCEPT ![w] = FALSE]
  /\ timeoutArmed' = [timeoutArmed EXCEPT ![w] = FALSE]
  /\ RejectReady(w)
  /\ UNCHANGED << exitEmitted, shutdownPc, shutdownExitSeen, aggregatedOptionChain,
                  lastSnapshot, contributors, appVars,
                  wPc, wExit, feedConnected, toCoord, toWorker, workerChain, runtimeCache >>

\* coordinator main:65-67  the 30 s readiness timer of worker w fires
CoordReadyTimeout(w) ==
  /\ coordExit = "running" /\ timeoutArmed[w]
  /\ timeoutArmed' = [timeoutArmed EXCEPT ![w] = FALSE]
  /\ RejectReady(w)
  /\ UNCHANGED << errorEvent, exitEmitted, shutdownPc, shutdownExitSeen,
                  aggregatedOptionChain, lastSnapshot, contributors, appVars,
                  wPc, wExit, feedConnected, toCoord, toWorker, workerChain, runtimeCache >>

\* coordinator main:88-92 and shutdown:155-157  the ChildProcess of worker w
\* emits 'exit': logged, and it resolves the exit promise of a waiting shutdown
CoordExitEvent(w) ==
  /\ coordExit = "running" /\ wPc[w] = "exited" /\ ~exitEmitted[w]
  /\ exitEmitted' = [exitEmitted EXCEPT ![w] = TRUE]
  /\ shutdownExitSeen' = IF shutdownPc = "waiting" THEN shutdownExitSeen \cup {w}
                         ELSE shutdownExitSeen
  /\ UNCHANGED << coordPc, coordExit, serverStarted, readyPromise, timeoutArmed,
                  workerKilled, errorEvent, shutdownPc, aggregatedOptionChain,
                  lastSnapshot, contributors, appVars, workerVars >>

\* Mutant of CoordSendSubscribe: 'subscribe' is sent without waiting for the
\* workers' 'ready'.
CoordSendSubscribe_NoWait ==
  /\ coordExit = "running" /\ coordPc \in {"awaiting", "delay"}
  /\ SendAll("subscribe")
  /\ coordPc' = "steady"
  /\ UNCHANGED << coordExit, serverStarted, readyPromise, timeoutArmed, workerKilled,
                  exitEmitted, shutdownPc, shutdownExitSeen, aggregatedOptionChain,
                  lastSnapshot, contributors, appVars,
                  wPc, wExit, feedConnected, sigterm, toCoord, workerChain, runtimeCache >>

\* coordinator main:123-138  after the 5 s delay: 'subscribe' to every worker,
\* then the republish interval is set
CoordSendSubscribe ==
  /\ coordExit = "running" /\ coordPc = "delay"
  /\ SendAll("subscribe")
  /\ coordPc' = "steady"
  /\ UNCHANGED << coordExit, serverStarted, readyPromise, timeoutArmed, workerKilled,
                  exitEmitted, shutdownPc, shutdownExitSeen, aggregatedOptionChain,
                  lastSnapshot, contributors, appVars,
                  wPc, wExit, feedConnected, sigterm, toCoord, workerChain, runtimeCache >>

\* shutdown:142-161  SIGTERM/SIGINT at the coordinator: 'shutdown' to every
\* worker, then wait for their exits or the grace period.  Before the
\* workers are forked there is none to wait for and the process exits.
CoordShutdown ==
  /\ coordExit = "running" /\ shutdownPc = "idle"
  /\ IF coordPc = "verify"
     THEN /\ shutdownPc' = "done" /\ coordPc' = "exited" /\ coordExit' = "exit0"
          /\ UNCHANGED << toWorker, errorEvent >>
     ELSE /\ SendAll("shutdown")
          /\ shutdownPc' = "waiting"
          /\ UNCHANGED << coordPc, coordExit >>
  /\ UNCHANGED << serverStarted, readyPromise, timeoutArmed, workerKilled, exitEmitted,
                  shutdownExitSeen, aggregatedOptionChain, lastSnapshot, contributors,
                  appVars, wPc, wExit, feedConnected, sigterm, toCoord, workerChain, runtimeCache >>

\* shutdown:163-170  SIGKILL every worker not yet killed, exit 0
ForceKillAndExit ==
  /\ wExit' = [w \in Workers |->
                 IF ~workerKilled[w] /\ Running(w) THEN "killed" ELSE wExit[w]]
  /\ wPc' = [w \in Workers |->
               IF ~workerKilled[w] /\ Running(w) THEN "exited" ELSE wPc[w]]
  /\ workerKilled' = [w \in Workers |-> workerKilled[w] \/ Running(w)]
  /\ shutdownPc' = "done"
  /\ coordPc' = "exited"
  /\ coordExit' = "exit0"
  /\ UNCHANGED << serverStarted, readyPromise, timeoutArmed, errorEvent, exitEmitted,
                  shutdownExitSeen, aggregatedOptionChain, lastSnapshot, contributors,
                  appVars, feedConnected, sigterm, toCoord, toWorker, workerChain, runtimeCache >>

\* shutdown:151-159  every worker's 'exit' was seen by the waiting shutdown
CoordShutdownAllExited ==
  /\ coordExit = "running" /\ shutdownPc = "waiting"
  /\ shutdownExitSeen = Workers
  /\ ForceKillAndExit

\* shutdown:160  the 5 s grace period is over
CoordShutdownGrace ==
  /\ coordExit = "running" /\ shutdownPc = "waiting"
  /\ ForceKillAndExit

UnchangedCoord == UNCHANGED << coordVars, appVars >>

\* worker.ts:52-83  an init stage of worker w succeeds
WorkerInitStep(w) ==
  /\ Running(w) /\ wPc[w] \in InitStages \ {"ticker"}
  /\ wPc' = [wPc EXCEPT ![w] = NextStage(@)]
  /\ runtimeCache' = [runtimeCache EXCEPT ![w] = IF wPc[w] = "calendar" THEN "loaded" ELSE @]
  /\ UNCHANGED << wExit, feedConnected, sigterm, toCoord, toWorker, workerChain >>
  /\ UnchangedCoord

\* worker.ts:62-63, market-minutes-cache.ts:236-258  the load of the market
\* minutes or of the expiry dates fails inside initializeRuntimeCache: its
\* catch logs the error and does not rethrow, so the call resolves and main()
\* goes on to the volatility stage
WorkerCacheLoadFails(w) ==
  /\ Running(w) /\ wPc[w] = "calendar"
  /\ wPc' = [wPc EXCEPT ![w] = NextStage(@)]
  /\ runtimeCache' = [runtimeCache EXCEPT ![w] = "failed"]
  /\ UNCHANGED << wExit, feedConnected, sigterm, toCoord, toWorker, workerChain >>
  /\ UnchangedCoord

\* worker.ts:56-59, 72-75, 80-83  an init stage of worker w throws:
\* process.exit(1), nothing is sent.  (The catch of lines 64-67 has nothing
\* to catch: initializeRuntimeCache swallows its own failures.)
WorkerInitFail(w) ==
  /\ Running(w) /\ wPc[w] \in InitStages \ {"calendar"}
  /\ wPc' = [wPc EXCEPT ![w] = "exited"]
  /\ wExit' = [wExit EXCEPT ![w] = "exit1"]
  /\ UNCHANGED << feedConnected, sigterm, toCoord, toWorker, workerChain, runtimeCache >>
  /\ UnchangedCoord

\* worker.ts:78-102  the ticker is connected: the message handler is
\* installed, then 'ready' is sent
WorkerReady(w) ==
  /\ Running(w) /\ wPc[w] = "ticker"
  /\ wPc' = [wPc EXCEPT ![w] = "ready"]
  /\ feedConnected' = [feedConnected EXCEPT ![w] = TRUE]
  /\ toCoord' = [toCoord EXCEPT ![w] = Append(@, Msg("ready", {}))]
  /\ UNCHANGED << wExit, sigterm, toWorker, workerChain, runtimeCache >>
  /\ UnchangedCoord

\* worker.ts:105-111  main() rejects outside its try blocks (the statements
\* of lines 85-100, before 'ready' is out): 'error' is sent, exit 1
WorkerMainThrows(w) ==
  /\ Running(w) /\ wPc[w] = "ticker"
  /\ wPc' = [wPc EXCEPT ![w] = "exited"]
  /\ wExit' = [wExit EXCEPT ![w] = "exit1"]
  /\ feedConnected' = [feedConnected EXCEPT ![w] = TRUE]
  /\ toCoord' = [toCoord EXCEPT ![w] = Append(@, Msg("error", {}))]
  /\ UNCHANGED << sigterm, toWorker, workerChain, runtimeCache >>
  /\ UnchangedCoord

\* The forked process never runs (fork fails): the ChildProcess emits 'error'.
WorkerSpawnError(w) ==
  /\ Running(w) /\ wPc[w] = "session" /\ coordExit = "running"
  /\ wPc' = [wPc EXCEPT ![w] = "exited"]
  /\ wExit' = [wExit EXCEPT ![w] = "exit1"]
  /\ errorEvent' = [errorEvent EXCEPT ![w] = TRUE]
  /\ UNCHANGED << feedConnected, sigterm, toCoord, toWorker, workerChain, runtimeCache >>
  /\ UNCHANGED << coordPc, coordExit, serverStarted, readyPromise, timeoutArmed,
                  workerKilled, exitEmitted, shutdownPc, shutdownExitSeen,
                  aggregatedOptionChain, lastSnapshot, contributors, appVars >>

\* A ready worker dies on its own (uncaught exception, killed from outside).
WorkerCrash(w) ==
  /\ Running(w) /\ wPc[w] = "ready"
  /\ wPc' = [wPc EXCEPT ![w] = "exited"]
  /\ wExit' = [wExit EXCEPT ![w] = "exit1"]
  /\ UNCHANGED << feedConnected, sigterm, toCoord, toWorker, workerChain, runtimeCache >>
  /\ UnchangedCoord

\* TickerService.disconnect (ticker.ts:616-618)
Disconnect(w) == feedConnected' = [feedConnected EXCEPT ![w] = FALSE]

\* worker.ts:90-94  'shutdown' reaches the handler: disconnect, exit 0
WorkerRecvShutdown(w) ==
  /\ Running(w) /\ wPc[w] = "ready"
  /\ toWorker[w] # << >> /\ Head(toWorker[w]).type = "shutdown"
  /\ toWorker' = [toWorker EXCEPT ![w] = Tail(@)]
  /\ Disconnect(w)
  /\ wPc' = [wPc EXCEPT ![w] = "exited"]
  /\ wExit' = [wExit EXCEPT ![w] = "exit0"]
  /\ UNCHANGED << sigterm, toCoord, workerChain, runtimeCache >>
  /\ UnchangedCoord

\* worker.ts:114-118  SIGTERM at worker w: disconnect, exit 0
WorkerSigterm(w) ==
  /\ Running(w) /\ sigterm[w]
  /\ sigterm' = [sigterm EXCEPT ![w] = FALSE]
  /\ Disconnect(w)
  /\ wPc' = [wPc EXCEPT ![w] = "exited"]
  /\ wExit' = [wExit EXCEPT ![w] = "exit0"]
  /\ UNCHANGED << toCoord, toWorker, workerChain, runtimeCache >>
  /\ UnchangedCoord

\* Mutant of SubscribeSymbols: the filter is ignored, every configured symbol
\* is subscribed.
SubscribeSymbols_All(w) == WORKER_GROUPS[1] \o WORKER_GROUPS[2] \o WORKER_GROUPS[3]

\* ticker.ts:469  the symbols a worker's subscribeAll walks: its filter
SubscribeSymbols(w) == WORKER_GROUPS[w]

\* ticker.ts:331-335, 386-396  the option rows of the underlyings in symbols
TokensOfSymbols(symbols) == { t \in Tokens : InstrumentOf(t).name \in Range(symbols) }

\* worker.ts:87-89, ticker.ts:468-504  'subscribe' reaches the handler:
\* subscribeAll clears the option chain and subscribes each symbol of the
\* filter in turn; the contracts selected (a set of those underlyings' rows,
\* decided by prices and volatility) enter the option chain, and a throwing
\* subscribe is logged and selects nothing.
WorkerRecvSubscribe(w) ==
  /\ Running(w) /\ wPc[w] = "ready"
  /\ toWorker[w] # << >> /\ Head(toWorker[w]).type = "subscribe"
  /\ toWorker' = [toWorker EXCEPT ![w] = Tail(@)]
  /\ \E selected \in SUBSET TokensOfSymbols(SubscribeSymbols(w)) :
       workerChain' = [workerChain EXCEPT ![w] = selected]
  /\ UNCHANGED << wPc, wExit, feedConnected, sigterm, toCoord, runtimeCache >>
  /\ UnchangedCoord

(***************************************************************************)
(* Snapshot flow: worker engine -> coordinator aggregate -> app -> clients *)
(* (ticker.ts:168-184, coordinator main:74-76 and 133-138, app.ts).        *)
(***************************************************************************)

ClientIds == 1..MaxClients

\* The `symbols` arrays of the subscribe/unsubscribe messages clients send.
ClientSymbolLists == { << "GOLD" >>, << "SILVER", "COPPER" >> }

NoMessage == [sent |-> FALSE, data |-> {}, symbols |-> {}]

\* A sent optionChain message: its keys, and the subscription it was
\* filtered with.
Sent(data, symbols) == [sent |-> TRUE, data |-> data, symbols |-> symbols]

\* Mutant of FilterForClient: the filter keeps every entry.
FilterForClient_All(data, symbols) == data

\* Mutant of FilterForClient: an empty subscription means all symbols.
FilterForClient_EmptyIsAll(data, symbols) ==
  IF symbols = {} THEN data ELSE { t \in data : InstrumentOf(t).name \in symbols }

\* app.ts:52-57, 102-107 and ticker.ts:513-518, 598-603  the entries whose
\* underlying (option.name) the client has subscribed
FilterForClient(data, symbols) == { t \in data : InstrumentOf(t).name \in symbols }

\* ticker.ts:168-180, 328  the recompute timer of worker w: the entries that
\* pass the snapshot filter (sellValue > returnValue, decided by the ticks
\* and margins of each entry) go to the coordinator through the callback.
WorkerRecompute(w) ==
  /\ Running(w) /\ wPc[w] = "ready" /\ coordExit = "running"
  /\ Cardinality({ k \in 1..Len(toCoord[w]) : toCoord[w][k].type = "optionChain" }) < MaxInFlight
  /\ \E optionsMap \in SUBSET workerChain[w] :
       toCoord' = [toCoord EXCEPT ![w] = Append(@, Msg("optionChain", optionsMap))]
  /\ UNCHANGED << wPc, wExit, feedConnected, sigterm, toWorker, workerChain, runtimeCache >>
  /\ UnchangedCoord

\* Mutant of Merge: the worker's previous keys are replaced by its snapshot.
Merge_Replace(aggregate, w, snapshot) == (aggregate \ lastSnapshot[w]) \cup snapshot

\* coordinator main:76  Object.assign(aggregatedOptionChain, msg.data)
Merge(aggregate, w, snapshot) == aggregate \cup snapshot

\* coordinator main:74-76  'optionChain' from worker w
CoordRecvOptionChain(w) ==
  /\ coordExit = "running" /\ toCoord[w] # << >> /\ Head(toCoord[w]).type = "optionChain"
  /\ LET snapshot == Head(toCoord[w]).data
     IN  /\ aggregatedOptionChain' = Merge(aggregatedOptionChain, w, snapshot)
         /\ lastSnapshot' = [lastSnapshot EXCEPT ![w] = snapshot]
         /\ contributors' = [t \in Tokens |->
                               IF t \in snapshot THEN contributors[t] \cup {w}
                               ELSE contributors[t]]
  /\ toCoord' = [toCoord EXCEPT ![w] = Tail(@)]
  /\ UNCHANGED << coordPc, coordExit, serverStarted, readyPromise, timeoutArmed,
                  workerKilled, errorEvent, exitEmitted, shutdownPc, shutdownExitSeen,
                  appVars, wPc, wExit, feedConnected, sigterm, toWorker, workerChain, runtimeCache >>

\* app.ts:31,46  latestOptionChain: the initial {} until setOptionChainData
\* stores the aggregate object itself
latestOptionChain == IF latestAliased THEN aggregatedOptionChain ELSE {}

\* coordinator main:134-138, app.ts:45-67  the republish interval: the
\* aggregate, when not empty, is filtered for and sent to every client; a
\* client whose send throws is dropped.
CoordRepublish ==
  /\ coordExit = "running" /\ coordPc = "steady"
  /\ IF aggregatedOptionChain # {}
     THEN /\ latestAliased' = TRUE
          /\ \E dead \in SUBSET DOMAIN connectedClients :
               /\ connectedClients' = [c \in DOMAIN connectedClients \ dead |->
                                         connectedClients[c]]
               /\ clientLast' = [c \in ClientIds |->
                                   IF c \in DOMAIN connectedClients \ dead
                                   THEN Sent(FilterForClient(aggregatedOptionChain,
                                                             connectedClients[c]),
                                             connectedClients[c])
                                   ELSE clientLast[c]]
     ELSE UNCHANGED appVars
  /\ UNCHANGED << coordVars, workerVars >>

\* app.ts:80-87  a WebSocket client connects
ClientOpen(c) ==
  /\ coordExit = "running" /\ serverStarted /\ c \notin DOMAIN connectedClients
  /\ connectedClients' = [d \in DOMAIN connectedClients \cup {c} |->
                            IF d = c THEN {} ELSE connectedClients[d]]
  /\ clientLast' = [clientLast EXCEPT ![c] = NoMessage]
  /\ UNCHANGED << latestAliased, coordVars, workerVars >>

\* app.ts:92-115  'subscribe' from client c: the symbols are added, and the
\* initial snapshot is sent when it is not empty
ClientSubscribe(c) ==
  /\ coordExit = "running" /\ c \in DOMAIN connectedClients
  /\ \E symbols \in ClientSymbolLists :
       LET subscribed   == connectedClients[c] \cup Range(symbols)
           filteredData == FilterForClient(latestOptionChain, subscribed)
       IN  /\ connectedClients' = [connectedClients EXCEPT ![c] = subscribed]
           /\ clientLast' = IF filteredData # {}
                            THEN [clientLast EXCEPT ![c] = Sent(filteredData, subscribed)]
                            ELSE clientLast
  /\ UNCHANGED << latestAliased, coordVars, workerVars >>

\* app.ts:116-123  'unsubscribe' from client c
ClientUnsubscribe(c) ==
  /\ coordExit = "running" /\ c \in DOMAIN connectedClients
  /\ \E symbols \in ClientSymbolLists :
       connectedClients' = [connectedClients EXCEPT ![c] = @ \ Range(symbols)]
  /\ UNCHANGED << latestAliased, clientLast, coordVars, workerVars >>

\* app.ts:150-153  client c disconnects
ClientClose(c) ==
  /\ coordExit = "running" /\ c \in DOMAIN connectedClients
  /\ connectedClients' = [d \in DOMAIN connectedClients \ {c} |-> connectedClients[d]]
  /\ UNCHANGED << latestAliased, clientLast, coordVars, workerVars >>

\* ticker.ts:168-184, 509-530  the recompute timer of an engine without a
\* data callback: the entries that pass the snapshot filter are filtered for
\* each client and sent when any is left; a client whose send throws is
\* dropped.
EngineRecompute ==
  /\ ~dataCallback
  /\ \E options \in SUBSET DOMAIN optionChain :
       LET receivers == { c \in DOMAIN clients : FilterForClient(options, clients[c]) # {} }
       IN  \E dead \in SUBSET receivers :
             /\ clients' = [c \in DOMAIN clients \ dead |-> clients[c]]
             /\ engineSent' = [c \in ClientIds |->
                                 IF c \in receivers \ dead
                                 THEN Sent(FilterForClient(options, clients[c]), clients[c])
                                 ELSE engineSent[c]]
  /\ UNCHANGED << dataCallback, hook, marginVars, shardVars, selVars, calVars, metricVars >>

\* ticker.ts:535-541  addClient
EngineAddClient(c) ==
  /\ ~dataCallback /\ c \notin DOMAIN clients
  /\ clients' = [d \in DOMAIN clients \cup {c} |-> IF d = c THEN {} ELSE clients[d]]
  /\ engineSent' = [engineSent EXCEPT ![c] = NoMessage]
  /\ UNCHANGED << dataCallback, hook, marginVars, shardVars, selVars, calVars, metricVars >>

\* ticker.ts:546-549  removeClient
EngineRemoveClient(c) ==
  /\ ~dataCallback /\ c \in DOMAIN clients
  /\ clients' = [d \in DOMAIN clients \ {c} |-> clients[d]]
  /\ UNCHANGED << dataCallback, engineSent, hook, marginVars, shardVars, selVars, calVars, metricVars >>

\* ticker.ts:554-570, 592-614  subscribeClient, then sendInitialData: the
\* whole option chain filtered for the client, sent when not empty; a
\* throwing send is logged.
EngineSubscribeClient(c) ==
  /\ ~dataCallback /\ c \in DOMAIN clients
  /\ \E symbols \in ClientSymbolLists, sendThrows \in BOOLEAN :
       LET subscribed      == clients[c] \cup Range(symbols)
           filteredOptions == FilterForClient(DOMAIN optionChain, subscribed)
       IN  /\ clients' = [clients EXCEPT ![c] = subscribed]
           /\ engineSent' = IF filteredOptions # {} /\ ~sendThrows
                            THEN [engineSent EXCEPT ![c] = Sent(filteredOptions, subscribed)]
                            ELSE engineSent
  /\ UNCHANGED << dataCallback, hook, marginVars, shardVars, selVars, calVars, metricVars >>

\* ticker.ts:575-587  unsubscribeClient
EngineUnsubscribeClient(c) ==
  /\ ~dataCallback /\ c \in DOMAIN clients
  /\ \E symbols \in ClientSymbolLists :
       clients' = [clients EXCEPT ![c] = @ \ Range(symbols)]
  /\ UNCHANGED << dataCallback, engineSent, hook, marginVars, shardVars, selVars, calVars, metricVars >>

ShardInit ==
  /\ coordPc = "verify"
  /\ coordExit = "running"
  /\ serverStarted = FALSE
  /\ readyPromise = [w \in Workers |-> "pending"]
  /\ timeoutArmed = [w \in Workers |-> FALSE]
  /\ workerKilled = [w \in Workers |-> FALSE]
  /\ errorEvent = [w \in Workers |-> FALSE]
  /\ exitEmitted = [w \in Workers |-> FALSE]
  /\ shutdownPc = "idle"
  /\ shutdownExitSeen = {}
  /\ aggregatedOptionChain = {}
  /\ lastSnapshot = [w \in Workers |-> {}]
  /\ contributors = [t \in Tokens |-> {}]
  /\ latestAliased = FALSE
  /\ connectedClients = << >>
  /\ clientLast = [c \in ClientIds |-> NoMessage]
  /\ wPc = [w \in Workers |-> "unspawned"]
  /\ wExit = [w \in Workers |-> "running"]
  /\ feedConnected = [w \in Workers |-> FALSE]
  /\ sigterm = [w \in Workers |-> FALSE]
  /\ toCoord = [w \in Workers |-> << >>]
  /\ toWorker = [w \in Workers |-> << >>]
  /\ runtimeCache = [w \in Workers |-> "empty"]
  /\ workerChain = [w \in Workers |-> {}]
(***************************************************************************)
(* The browser client's connection hook (client/src/hooks/use-websocket.ts). *)
(***************************************************************************)

\* use-websocket.ts:165
maxAttempts == 5

\* use-websocket.ts:110-116  the hook before its mount effect has run.
\* `sockets`: the WebSocket objects created, each connecting, open, closing
\* (close() called, its close event still due) or closed; `wsRef`: the index
\* of wsRef.current, 0 for null; `timers`: the reconnect timers that are set,
\* named by the socket whose close event set them; `reconnectTimeoutRef`:
\* the timer the ref holds, 0 for null; `stopped`: disconnect() was the last
\* call the component made; `row`: the reconnects made since the last open;
\* `mounts`: the calls of connect() the component has made.
NoHook ==
  [sockets |-> << >>, wsRef |-> 0, timers |-> {}, reconnectTimeoutRef |-> 0,
   reconnectAttempts |-> 0, stopped |-> FALSE, row |-> 0, mounts |-> 0]

\* use-websocket.ts:118-124  connect(): a new WebSocket becomes wsRef.current
Connected(h) ==
  [h EXCEPT !.sockets = Append(@, "connecting"), !.wsRef = Len(h.sockets) + 1]

\* use-websocket.ts:160-179  the 'close' listener of socket i
OnClose(h, i) ==
  LET closed == [h EXCEPT !.wsRef = 0]
  IN  IF h.reconnectAttempts < maxAttempts
      THEN [closed EXCEPT !.reconnectAttempts = @ + 1,
                          !.timers = @ \cup {i},
                          !.reconnectTimeoutRef = i]
      ELSE closed

\* use-websocket.ts:209-211  the mount effect, or a call of the connect the
\* hook returns
HookConnect ==
  /\ Len(hook.sockets) < MaxSockets /\ hook.mounts < MaxMounts
  /\ hook.sockets = << >> \/ hook.stopped
  /\ hook' = [Connected(hook) EXCEPT !.stopped = FALSE, !.mounts = @ + 1]

\* use-websocket.ts:192-207  disconnect(): the cleanup of the mount effect,
\* or a call of the disconnect the hook returns
HookDisconnect ==
  /\ hook.sockets # << >> /\ ~hook.stopped
  /\ hook' = [hook EXCEPT
                !.timers = IF hook.reconnectTimeoutRef # 0
                           THEN @ \ {hook.reconnectTimeoutRef} ELSE @,
                !.reconnectTimeoutRef = 0,
                !.sockets = IF hook.wsRef # 0 /\ @[hook.wsRef] \in {"connecting", "open"}
                            THEN [@ EXCEPT ![hook.wsRef] = "closing"] ELSE @,
                !.wsRef = 0,
                !.stopped = TRUE]

\* use-websocket.ts:126-130  the 'open' listener of socket i
SocketOpen(i) ==
  /\ hook.sockets[i] = "connecting"
  /\ hook' = [hook EXCEPT !.sockets[i] = "open", !.reconnectAttempts = 0, !.row = 0]

\* use-websocket.ts:160-179  socket i is closed by the server or the network
SocketDrop(i) ==
  /\ hook.sockets[i] \in {"connecting", "open"}
  /\ hook' = OnClose([hook EXCEPT !.sockets[i] = "closed"], i)

\* use-websocket.ts:160-179, 199  the close event of socket i, which
\* disconnect() has closed
SocketCloseEvent(i) ==
  /\ hook.sockets[i] = "closing"
  /\ hook' = OnClose([hook EXCEPT !.sockets[i] = "closed"], i)

\* use-websocket.ts:172-175  a reconnect timer fires: connect()
ReconnectTimer(t) ==
  /\ t \in hook.timers
  /\ Len(hook.sockets) < MaxSockets
  /\ hook' = [Connected([hook EXCEPT !.timers = @ \ {t}]) EXCEPT !.row = @ + 1]


\* No WebSocket client yet.
WsInit ==
  /\ clients = << >>
  /\ engineSent = [c \in ClientIds |-> NoMessage]
  /\ hook = NoHook

EngineIdle ==
  /\ optionChain = << >>
  /\ isFetchingMargins = FALSE
  /\ marginRuns = << >>
  /\ lastFetch = NoFetch

EngineInit ==
  /\ \E live \in SUBSET Tokens : optionChain = [t \in live |-> NewEntry(t)]
  /\ isFetchingMargins = FALSE
  /\ marginRuns = << >>
  /\ lastFetch = NoFetch

(***************************************************************************)
(* Contract selection: the strike filter of TickerService.subscribe        *)
(* (services/ticker.ts).                                                   *)
(***************************************************************************)

\* Array.prototype.find on no match, and the value of an unset variable.
Undefined == -1

\* The truthiness test of `x ? a : b` on a number or undefined.
Truthy(x) == x # Undefined /\ x # 0

Reverse(s) == [k \in 1..Len(s) |-> s[Len(s) + 1 - k]]

\* Array.prototype.find: the first element of s among those at the indices
\* that pass the test
Find(s, passing) ==
  IF passing = {} THEN Undefined
  ELSE s[CHOOSE k \in passing : \A j \in passing : k <= j]

\* Option rows of one (underlying, expiry) a filter call is tried on: each
\* strike as a call and as a put.
OptionRows ==
  { [instrumentToken |-> 10 * strike + (IF type = "CE" THEN 1 ELSE 2),
     instrumentType  |-> type,
     strike          |-> strike] : strike \in 1..MaxStrike, type \in {"CE", "PE"} }

\* ticker.ts:398-401  put strikes, descending
PutStrikes(options) ==
  Reverse(SortedSeq({ o.strike : o \in { r \in options : r.instrumentType = "PE" } }))

\* ticker.ts:403-406  call strikes, ascending
CallStrikes(options) ==
  SortedSeq({ o.strike : o \in { r \in options : r.instrumentType = "CE" } })

\* Mutant of closestCeilingStrike: with no call strike reaching the bound,
\* fall back to the highest call strike.
closestCeilingStrike_Fallback(callStrikes, ceBound) ==
  IF \E k \in 1..Len(callStrikes) : callStrikes[k] >= ceBound
  THEN Find(callStrikes, { k \in 1..Len(callStrikes) : callStrikes[k] >= ceBound })
  ELSE IF callStrikes = << >> THEN Undefined
  ELSE callStrikes[Len(callStrikes)]

\* ticker.ts:409  the first put strike, descending, that is <= the floor
closestFloorStrike(putStrikes, peBound) ==
  Find(putStrikes, { k \in 1..Len(putStrikes) : putStrikes[k] <= peBound })

\* ticker.ts:412  the first call strike, ascending, that is >= the ceiling
closestCeilingStrike(callStrikes, ceBound) ==
  Find(callStrikes, { k \in 1..Len(callStrikes) : callStrikes[k] >= ceBound })

\* ticker.ts:398-428  the rows subscribe keeps of one (underlying, expiry)
FilteredInstruments(options, ceBound, peBound) ==
  LET floorStrike   == closestFloorStrike(PutStrikes(options), peBound)
      ceilingStrike == closestCeilingStrike(CallStrikes(options), ceBound)
  IN  { o \in options :
          IF o.instrumentType = "PE"
          THEN IF Truthy(floorStrike) THEN o.strike <= floorStrike ELSE FALSE
          ELSE IF o.instrumentType = "CE"
          THEN IF Truthy(ceilingStrike) THEN o.strike >= ceilingStrike ELSE FALSE
          ELSE FALSE }

NoFilterCall == [done |-> FALSE, options |-> {}, ceBound |-> 0, peBound |-> 0, result |-> {}]

FilterIdle == filterCall = NoFilterCall

\* ticker.ts:385-428  a filter call: the rows of one (underlying, expiry),
\* the ceiling and the floor
InitFilter ==
  \E options \in SUBSET OptionRows, ceBound \in 0..MaxStrike + 1, peBound \in 0..MaxStrike + 1 :
    filterCall = [done |-> FALSE, options |-> options, ceBound |-> ceBound,
                  peBound |-> peBound, result |-> {}]

ApplyFilter ==
  /\ ~filterCall.done
  /\ filterCall' = [filterCall EXCEPT
                      !.done = TRUE,
                      !.result = FilteredInstruments(filterCall.options, filterCall.ceBound,
                                                     filterCall.peBound)]

(***************************************************************************)
(* Contract selection: TickerService.subscribeAll and subscribe, with the   *)
(* feed's ticks between their awaits.                                      *)
(***************************************************************************)

SdMultipliers == 1..MaxSd

Prices == 0..MaxPrice

\* ticker.ts:111-121  futureLtps after init: 0 for every future of the
\* engine's symbols
InitialFutureLtps(symbols) ==
  LET futures == { f \in Futures : f.name \in Range(symbols) }
  IN  [u \in { f.name : f \in futures } |->
         [e \in { f.expiry : f \in { g \in futures : g.name = u } } |-> 0]]

\* History of the selection: the subscribeAll calls made; whether a call has
\* ended with no other in flight, and then the subscribed tokens it left and
\* its sdMultiplier; `moved`: a future's price or the sdMultiplier has changed
\* since the first call that led to that end began; `dirty`: one has changed
\* since the first of the calls in flight began; `repeated`: the last call
\* to end was a repetition with nothing moved; `mixed`: calls with different
\* sdMultipliers have been in flight together since the engine was last
\* without a call; `lastSelected`: the tokens the subscribe steps of the call
\* made last have selected, once that call has ended.
NoSelection ==
  [calls |-> 0, ended |-> FALSE, tokens |-> {}, sdMultiplier |-> 0,
   moved |-> FALSE, dirty |-> FALSE, repeated |-> FALSE,
   mixed |-> FALSE, lastSelected |-> {}]

\* No request to the feed: the tokens of a setMode('full', ...) and of an
\* unsubscribe(...) request, the old tokens of the subscribeAll call that sent
\* them, whether that call ended with them, and the tokens it left; the
\* underlyings whose subscribe that call has called and those whose subscribe
\* threw; `feed`: the tokens the feed (KiteTicker) has in full mode.
NoUpstream ==
  [setMode |-> {}, unsubscribe |-> {}, oldTokens |-> {}, ended |-> FALSE, newTokens |-> {},
   visited |-> {}, failed |-> {}, feed |-> {}]

\* worker.ts:42, ticker.ts:70-72, 111-121  the engine of worker w after
\* setSymbolsFilter and init
SelectIdleOf(w) ==
  /\ symbolsFilter = SubscribeSymbols(w)
  /\ subscribedTokens = DOMAIN optionChain
  /\ futureLtps = InitialFutureLtps(symbolsFilter)
  /\ subscribeRuns = << >>
  /\ selHist = NoSelection
  /\ upstream = NoUpstream

SelectIdle == SelectIdleOf(1)

SelIdle == FilterIdle /\ SelectIdle

\* ticker.ts:332-335  the distinct option expiries of an underlying
DistinctOptionExpiries(underlying) ==
  SortedSeq({ o.expiry : o \in { r \in Instruments :
                                   r.name = underlying /\ r.instrumentType \in {"CE", "PE"} } })

\* ticker.ts:385-396  the option rows of an underlying and expiry
OptionsOf(underlying, expiry) ==
  { r \in Instruments : /\ r.name = underlying
                        /\ r.instrumentType \in {"CE", "PE"}
                        /\ r.expiry = expiry }

\* ticker.ts:338-340  the first future expiry after the option expiry
FutExpiry(ltps, underlying, expiry) ==
  LET later == { e \in DOMAIN ltps[underlying] : e > expiry }
  IN  IF later = {} THEN Undefined
      ELSE CHOOSE e \in later : \A d \in later : e <= d

\* ticker.ts:351-382  ceiling and floor of an expiry.  calculateAllSigmas is
\* an async function (market-minutes-cache.ts:214) called without await: the
\* promise it returns has no sigmaXI, both bounds become NaN, reading
\* ceSigmas.sigma.toFixed throws, and the catch sets both bounds to the last
\* price; without a volatility sample they are the last price already.
SigmaBounds(ltp, sdMultiplier) == [ceBound |-> ltp, peBound |-> ltp]

\* ticker.ts:481-485  subscribe of the head symbol returned or threw: the
\* loop of subscribeAll calls subscribe of the next symbol, which runs to its
\* first await
NextSymbol(run) ==
  [run EXCEPT !.symbols = Tail(@), !.at = "expiries", !.expiries = << >>,
              !.visited = IF Tail(run.symbols) = << >> THEN @
                          ELSE @ \cup {Head(Tail(run.symbols))}]

\* Mutant of AfterThrow: an exception of subscribe ends the loop of
\* subscribeAll.
AfterThrow_Aborts(run) ==
  [run EXCEPT !.symbols = << >>, !.at = "expiries", !.expiries = << >>,
              !.failed = @ \cup {Head(run.symbols)}]

\* ticker.ts:481-485  subscribe of the head symbol threw: the catch logs and
\* the loop goes on
AfterThrow(run) == NextSymbol([run EXCEPT !.failed = @ \cup {Head(run.symbols)}])

\* ticker.ts:337-396  the loop of subscribe from the head of `expiries` to
\* its next await: an expiry without a later future is skipped, a future
\* without a last price throws, otherwise the option rows are queried
RECURSIVE EnterExpiry(_, _, _)
EnterExpiry(run, expiries, ltps) ==
  LET underlying == Head(run.symbols)
  IN  IF expiries = << >> THEN NextSymbol(run)
      ELSE IF underlying \notin DOMAIN ltps THEN AfterThrow(run)
      ELSE LET futExpiry == FutExpiry(ltps, underlying, Head(expiries))
           IN  IF futExpiry = Undefined THEN EnterExpiry(run, Tail(expiries), ltps)
               ELSE IF ~Truthy(ltps[underlying][futExpiry]) THEN AfterThrow(run)
               ELSE [run EXCEPT
                       !.at = "options",
                       !.expiries = expiries,
                       !.bounds = SigmaBounds(ltps[underlying][futExpiry], run.sdMultiplier)]

\* Mutant of TokensToUnsubscribe: every token of the previous selection is
\* unsubscribed.
TokensToUnsubscribe_AllOld(oldTokens, subscribed) == oldTokens

\* ticker.ts:489  the old tokens that were not selected again
TokensToUnsubscribe(oldTokens, subscribed) == oldTokens \ subscribed

\* Mutant of ClearedChain: subscribeAll keeps the entries of the previous
\* selection.
ClearedChain_Keep(chain) == chain

\* ticker.ts:477  this.optionChain = {}
ClearedChain(chain) == << >>

\* ticker.ts:83-94, 436-454  the filtered rows are added to subscribedTokens
\* and get a zeroed entry
WithEntries(chain, tokens) ==
  [t \in DOMAIN chain \cup tokens |-> IF t \in tokens THEN NewEntry(t) ELSE chain[t]]

\* The subscribeAll calls in flight differ in sdMultiplier.
MixedSd(runs) == \E i, j \in 1..Len(runs) : runs[i].sdMultiplier # runs[j].sdMultiplier

\* worker.ts:86-90  the tokens selected by the call received last, known once
\* that call has ended
LastSelected(run) == IF run.call = selHist.calls THEN run.selected ELSE selHist.lastSelected

\* ticker.ts:481-503  run i is at `run` with `subscribed` and `chain`
\* after a step: the run waits at its next await, or the loop over the
\* symbols is over, the old tokens not selected again are unsubscribed
\* (ticker.ts:96-102) and subscribeAll returns; `requested` are the tokens
\* the step passed to ticker.setMode('full', ...) (ticker.ts:93)
Settle(i, run, subscribed, chain, requested) ==
  /\ optionChain' = chain
  /\ IF run.symbols # << >>
     THEN /\ subscribeRuns' = [subscribeRuns EXCEPT ![i] = run]
          /\ subscribedTokens' = subscribed
          /\ upstream' = [setMode |-> requested, unsubscribe |-> {},
                          oldTokens |-> run.oldTokens, ended |-> FALSE, newTokens |-> {},
                          visited |-> run.visited, failed |-> run.failed,
                          feed |-> upstream.feed \cup requested]
          /\ UNCHANGED selHist
     ELSE /\ subscribeRuns' = RemoveAt(subscribeRuns, i)
          /\ subscribedTokens' = subscribed \ TokensToUnsubscribe(run.oldTokens, subscribed)
          /\ upstream' = [setMode |-> requested,
                          unsubscribe |-> TokensToUnsubscribe(run.oldTokens, subscribed),
                          oldTokens |-> run.oldTokens, ended |-> TRUE,
                          newTokens |-> subscribedTokens',
                          visited |-> run.visited, failed |-> run.failed,
                          feed |-> (upstream.feed \cup requested)
                                     \ TokensToUnsubscribe(run.oldTokens, subscribed)]
          /\ selHist' = IF Len(subscribeRuns) = 1
                        THEN [selHist EXCEPT !.ended = TRUE,
                                             !.tokens = subscribedTokens',
                                             !.sdMultiplier = run.sdMultiplier,
                                             !.moved = selHist.dirty,
                                             !.dirty = FALSE,
                                             !.repeated = selHist.ended /\ ~selHist.moved,
                                             !.lastSelected = LastSelected(run)]
                        ELSE [selHist EXCEPT !.lastSelected = LastSelected(run)]

\* worker.ts:89, ticker.ts:468-482  subscribeAll(sdMultiplier) up to the
\* first await of subscribe of its first symbol
SubscribeAllStart(sdMultiplier) ==
  /\ selHist.calls < MaxSubscribes
  /\ symbolsFilter # << >>
  /\ subscribeRuns' = Append(subscribeRuns,
                             [oldTokens    |-> subscribedTokens,
                              visited      |-> {Head(symbolsFilter)},
                              failed       |-> {},
                              sdMultiplier |-> sdMultiplier,
                              call         |-> selHist.calls + 1,
                              selected     |-> {},
                              symbols      |-> symbolsFilter,
                              at           |-> "expiries",
                              expiries     |-> << >>,
                              bounds       |-> SigmaBounds(0, sdMultiplier)])
  /\ optionChain' = ClearedChain(optionChain)
  /\ subscribedTokens' = {}
  /\ upstream' = [NoUpstream EXCEPT !.feed = upstream.feed]
  /\ selHist' = [selHist EXCEPT
                   !.calls = @ + 1,
                   !.moved = @ \/ MixedSd(subscribeRuns')
                               \/ (subscribeRuns = << >> /\ selHist.sdMultiplier # sdMultiplier),
                   !.dirty = @ \/ MixedSd(subscribeRuns'),
                   !.mixed = (subscribeRuns # << >> /\ @) \/ MixedSd(subscribeRuns')]
  /\ UNCHANGED << filterCall, symbolsFilter, futureLtps, isFetchingMargins, marginRuns, lastFetch >>

\* ticker.ts:332-396  the expiries of the head symbol of run i arrive
SubscribeExpiries(i) ==
  LET run == subscribeRuns[i]
  IN  /\ run.at = "expiries"
      /\ Settle(i, EnterExpiry(run, DistinctOptionExpiries(Head(run.symbols)), futureLtps),
                subscribedTokens, optionChain, {})
      /\ UNCHANGED << filterCall, symbolsFilter, futureLtps, isFetchingMargins, marginRuns, lastFetch >>

\* ticker.ts:385-455  the option rows of the head expiry of run i arrive:
\* filter, subscribe, create the entries, go on with the next expiry
SubscribeOptions(i) ==
  LET run      == subscribeRuns[i]
      options  == OptionsOf(Head(run.symbols), Head(run.expiries))
      filtered == FilteredInstruments(options, run.bounds.ceBound, run.bounds.peBound)
      tokens   == { o.instrumentToken : o \in filtered }
  IN  /\ run.at = "options"
      /\ Settle(i, EnterExpiry([run EXCEPT !.selected = @ \cup tokens],
                                Tail(run.expiries), futureLtps),
                subscribedTokens \cup tokens, WithEntries(optionChain, tokens), tokens)
      /\ UNCHANGED << filterCall, symbolsFilter, futureLtps, isFetchingMargins, marginRuns, lastFetch >>

\* ticker.ts:147-150  a tick of a future
FutureTick(future, price) ==
  /\ future.name \in DOMAIN futureLtps
  /\ futureLtps' = [futureLtps EXCEPT ![future.name][future.expiry] = price]
  /\ selHist' = [selHist EXCEPT
                   !.moved = @ \/ futureLtps' # futureLtps,
                   !.dirty = @ \/ (futureLtps' # futureLtps /\ subscribeRuns # << >>)]
  /\ UNCHANGED << filterCall, symbolsFilter, subscribedTokens, subscribeRuns, upstream,
                  marginVars >>

\* Mutant of OptionTick: a tick of a contract without an entry creates one.
OptionTick_Creates(token, bid) ==
  /\ optionChain' = [t \in DOMAIN optionChain \cup {token} |->
                       IF t = token
                       THEN [(IF t \in DOMAIN optionChain THEN optionChain[t] ELSE NewEntry(t))
                               EXCEPT !.bid = bid]
                       ELSE optionChain[t]]
  /\ UNCHANGED << selVars, isFetchingMargins, marginRuns, lastFetch >>

\* ticker.ts:151-159  a full-mode tick of an option: only an entry that
\* exists is written
OptionTick(token, bid) ==
  /\ optionChain' = IF token \in DOMAIN optionChain
                    THEN [optionChain EXCEPT ![token].bid = bid]
                    ELSE optionChain
  /\ UNCHANGED << selVars, isFetchingMargins, marginRuns, lastFetch >>

(***************************************************************************)
(* Market minutes: the holiday calendar and the session arithmetic of      *)
(* utils/market-minutes, and the memo of MarketMinutesCache                *)
(* (market-minutes-cache.ts).  A date is the number of its day, day 0      *)
(* being Friday 31 October 2025; the clock is India's wall clock.          *)
(***************************************************************************)

\* The minutes of the day the clock is read at: midnight, the session
\* boundaries, a minute within each session, the last minute.
ClockTimes == {0, 9 * 60, 10 * 60, 17 * 60, 20 * 60, 23 * 60 + 30, 23 * 60 + 55}

ClockDays == 0..MaxDay

HolidayTypes == {"morning", "evening", "full"}

\* isWeekend of a day in India: day 0 is a Friday
IsWeekend(day) == day % 7 \in {1, 2}

\* market-minutes-cache.ts:358-368  isUsDst: US daylight saving time ends at
\* 02:00 New York time on Sunday 2 November 2025, 11:30 in India
isUsDst(day, minute) == day < 2 \/ (day = 2 /\ minute < 11 * 60 + 30)

\* market-minutes-cache.ts:373-375
getEveningSessionMinutes(day, minute) ==
  IF isUsDst(day, minute) THEN EVENING_SESSION_DST_MINUTES ELSE EVENING_SESSION_NON_DST_MINUTES

\* market-minutes-cache.ts:380-382
getFullDayMinutes(day, minute) ==
  IF isUsDst(day, minute) THEN FULL_DAY_DST_MINUTES ELSE FULL_DAY_NON_DST_MINUTES

\* Mutant of getMarketMinutesForDay: a full-closure holiday counts as its
\* morning session.
getMarketMinutesForDay_FullIsMorning(day, holidayType) ==
  IF holidayType = "full" THEN MORNING_SESSION_MINUTES
  ELSE IF holidayType = "morning" THEN getEveningSessionMinutes(day, 0)
  ELSE IF holidayType = "evening" THEN MORNING_SESSION_MINUTES
  ELSE getFullDayMinutes(day, 0)

\* market-minutes-cache.ts:390-408  the minutes of a day (a Date at the
\* start of the day) by its holiday type
getMarketMinutesForDay(day, holidayType) ==
  IF holidayType = "full" THEN 0
  ELSE IF holidayType = "morning" THEN getEveningSessionMinutes(day, 0)
  ELSE IF holidayType = "evening" THEN MORNING_SESSION_MINUTES
  ELSE getFullDayMinutes(day, 0)

\* holidayCache before loadHolidayCache ran (market-minutes-cache.ts:304)
NotLoaded == [loaded |-> FALSE, types |-> << >>]

\* market-minutes-cache.ts:414-432  getHolidaysInRange: the holidays of the
\* days of the range; without a cache a warning and no holiday
getHolidaysInRange(cache, startDate, endDate) ==
  IF ~cache.loaded
  THEN [warned |-> TRUE, types |-> << >>]
  ELSE [warned |-> FALSE,
        types  |-> [d \in { x \in startDate..endDate : x \in DOMAIN cache.types } |->
                      cache.types[d]]]

\* Map.get of a holiday map: the type, or undefined
HolidayTypeOf(types, day) == IF day \in DOMAIN types THEN types[day] ELSE "none"

\* eachDayOfInterval
eachDayOfInterval(startDate, endDate) ==
  [k \in 1..(endDate - startDate + 1) |-> startDate + k - 1]

\* market-minutes-cache.ts:574-585, 635-645  the loop over the days of a
\* range: weekends are skipped, the others add their minutes
RECURSIVE SumOfDays(_, _)
SumOfDays(days, types) ==
  IF days = << >> THEN 0
  ELSE (IF IsWeekend(Head(days)) THEN 0
        ELSE getMarketMinutesForDay(Head(days), HolidayTypeOf(types, Head(days))))
       + SumOfDays(Tail(days), types)

\* market-minutes-cache.ts:556-588  calculateMarketMinutesInRange
calculateMarketMinutesInRange(cache, startDate, endDate) ==
  IF startDate > endDate
  THEN [threw |-> TRUE, warned |-> FALSE, value |-> 0]
  ELSE LET holidayMap == getHolidaysInRange(cache, startDate, endDate)
       IN  [threw  |-> FALSE,
            warned |-> holidayMap.warned,
            value  |-> SumOfDays(eachDayOfInterval(startDate, endDate), holidayMap.types)]

\* Mutant of getRemainingMinutesToday: during the morning session of a
\* normal day the whole day is added to what remains of the morning.
getRemainingMinutesToday_MorningPlusDay(day, minute, holidayType) ==
  IF holidayType = "none" /\ minute >= 9 * 60 /\ minute < 17 * 60
  THEN (17 * 60 - minute) + getFullDayMinutes(day, minute)
  ELSE IF holidayType = "none" /\ minute < 9 * 60 THEN getFullDayMinutes(day, minute)
  ELSE 0

\* market-minutes-cache.ts:484-548  getRemainingMinutesToday
getRemainingMinutesToday(day, minute, holidayType) ==
  LET currentTimeInMinutes == minute
      morningStart == 9 * 60 + 0
      morningEnd   == 17 * 60 + 0
      eveningEnd   == IF isUsDst(day, minute) THEN 23 * 60 + 30 ELSE 23 * 60 + 55
  IN  IF holidayType = "full" THEN 0
      ELSE IF holidayType = "morning"
      THEN IF currentTimeInMinutes < morningEnd THEN eveningEnd - morningEnd
           ELSE IF currentTimeInMinutes < eveningEnd THEN eveningEnd - currentTimeInMinutes
           ELSE 0
      ELSE IF holidayType = "evening"
      THEN IF currentTimeInMinutes < morningStart THEN morningEnd - morningStart
           ELSE IF currentTimeInMinutes < morningEnd THEN morningEnd - currentTimeInMinutes
           ELSE 0
      ELSE IF currentTimeInMinutes < morningStart THEN getFullDayMinutes(day, minute)
      ELSE IF currentTimeInMinutes < morningEnd
      THEN (morningEnd - currentTimeInMinutes) + getEveningSessionMinutes(day, minute)
      ELSE IF currentTimeInMinutes < eveningEnd THEN eveningEnd - currentTimeInMinutes
      ELSE 0

\* Expiry strings by what the parsers make of them: "" and "  "; a string
\* that is no date ("abc"); one that matches \d{4}-\d{2}-\d{2} and is no date
\* ("2025-13-45"); the ISO, DD-MMM-YYYY and free-form spellings of a day.
\* The days: more than a year ago, yesterday, the days of the clock, the day
\* after, more than five years ahead.
ExpiryTexts ==
  { [form |-> f, day |-> 0] : f \in {"empty", "blank", "garbage", "isoInvalid"} }
    \cup { [form |-> "iso", day |-> d] : d \in {-400, -1, 2000} \cup 0..(MaxDay + 1) }
    \cup { [form |-> f, day |-> MaxDay] : f \in {"shoonya", "native"} }

InvalidDate == [valid |-> FALSE, day |-> 0]

\* parseISO of a string that matches \d{4}-\d{2}-\d{2}
parseISO(text) ==
  IF text.form = "iso" THEN [valid |-> TRUE, day |-> text.day] ELSE InvalidDate

\* parse(text, 'dd-MMM-yyyy') of a string that matches \d{2}-[A-Z]{3}-\d{4}
parseShoonya(text) ==
  IF text.form = "shoonya" THEN [valid |-> TRUE, day |-> text.day] ELSE InvalidDate

\* new Date(text)
NativeDate(text) ==
  IF text.form \in {"native", "iso"} THEN [valid |-> TRUE, day |-> text.day] ELSE InvalidDate

MatchesIso(text) == text.form \in {"iso", "isoInvalid"}

MatchesShoonya(text) == text.form = "shoonya"

\* new Date(year + n, month, date): n years after a day
YearsFrom(day, n) == IF n < 0 THEN day - (365 * (-n)) ELSE day + 365 * n + n \div 4

\* Mutant of isValidExpiryDate: every string that is not empty is valid.
isValidExpiryDate_NotEmpty(text, today) == text.form \notin {"empty", "blank"}

\* market-minutes-cache.ts:56-94  isValidExpiryDate
isValidExpiryDate(text, today) ==
  IF text.form \in {"empty", "blank"} THEN FALSE
  ELSE LET parsed == IF MatchesIso(text) THEN parseISO(text)
                     ELSE IF MatchesShoonya(text) THEN parseShoonya(text)
                     ELSE NativeDate(text)
       IN  IF ~parsed.valid THEN FALSE
           ELSE parsed.day >= YearsFrom(today, -1) /\ parsed.day <= YearsFrom(today, 5)

\* market-minutes-cache.ts:446-476  parseExpiryDate: the day, or an Error
parseExpiryDate(text) ==
  IF text.form = "empty" THEN [threw |-> TRUE, day |-> 0]
  ELSE IF MatchesIso(text) /\ parseISO(text).valid
  THEN [threw |-> FALSE, day |-> parseISO(text).day]
  ELSE IF MatchesShoonya(text) /\ parseShoonya(text).valid
  THEN [threw |-> FALSE, day |-> parseShoonya(text).day]
  ELSE IF text.form # "blank" /\ NativeDate(text).valid
  THEN [threw |-> FALSE, day |-> NativeDate(text).day]
  ELSE [threw |-> TRUE, day |-> 0]

\* market-minutes-cache.ts:596-651  calculateMarketMinutesTillExpiry at the
\* clock `at`
calculateMarketMinutesTillExpiry(text, at, cache) ==
  LET expiry == parseExpiryDate(text)
  IN  IF expiry.threw THEN [threw |-> TRUE, warned |-> FALSE, value |-> 0]
      ELSE IF expiry.day < at.day THEN [threw |-> FALSE, warned |-> FALSE, value |-> 0]
      ELSE LET holidayMap       == getHolidaysInRange(cache, at.day, expiry.day)
               todayHolidayType == HolidayTypeOf(holidayMap.types, at.day)
               today            == IF IsWeekend(at.day) THEN 0
                                   ELSE getRemainingMinutesToday(at.day, at.minute,
                                                                 todayHolidayType)
           IN  [threw  |-> FALSE,
                warned |-> holidayMap.warned,
                value  |-> IF expiry.day = at.day THEN today
                           ELSE today + SumOfDays(eachDayOfInterval(at.day + 1, expiry.day),
                                                  holidayMap.types)]

\* Mutant of CachedMinutes: the memo is not read, every call computes.
CachedMinutes_Never(map, text) == Undefined

\* market-minutes-cache.ts:36-38  the memo's value of an expiry string
CachedMinutes(map, text) == IF text \in DOMAIN map THEN map[text] ELSE Undefined

\* market-minutes-cache.ts:35-51  getMarketMinutesTillExpiry: the value the
\* promise resolves to or its rejection, the warnings, the memo afterwards
getMarketMinutesTillExpiry(text, at, cache, map) ==
  IF CachedMinutes(map, text) # Undefined
  THEN [threw |-> FALSE, warned |-> FALSE, value |-> CachedMinutes(map, text), map |-> map]
  ELSE IF ~isValidExpiryDate(text, at.day)
  THEN [threw |-> FALSE, warned |-> TRUE, value |-> 0,
        map |-> [t \in DOMAIN map \cup {text} |-> IF t = text THEN 0 ELSE map[t]]]
  ELSE LET marketMinutes == calculateMarketMinutesTillExpiry(text, at, cache)
       IN  IF marketMinutes.threw
           THEN [threw |-> TRUE, warned |-> FALSE, value |-> 0, map |-> map]
           ELSE [threw |-> FALSE, warned |-> marketMinutes.warned,
                 value |-> marketMinutes.value,
                 map |-> [t \in DOMAIN map \cup {text} |->
                            IF t = text THEN marketMinutes.value ELSE map[t]]]

NoMinutesCall ==
  [done |-> FALSE, day |-> 0, minute |-> 0, loaded |-> FALSE, result |-> 0, threw |-> FALSE,
   warned |-> FALSE, fresh |-> Undefined, prevResult |-> Undefined, prevFresh |-> Undefined]

NoRangeCall == [done |-> FALSE, startDate |-> 0, endDate |-> 0, result |-> 0, threw |-> FALSE]

\* The calendar module and the memo before any call.
CalIdle ==
  /\ now = [day |-> 0, minute |-> 0]
  /\ holidayCache = NotLoaded
  /\ expiryDate = [form |-> "iso", day |-> 0]
  /\ expiryMinutesMap = << >>
  /\ minutesCall = NoMinutesCall
  /\ rangeCall = NoRangeCall

\* The calendars loadHolidayCache is tried with: any type for the Friday, a
\* full closure or none for the Monday.
HolidayCalendars ==
  { types \in UNION { [D -> HolidayTypes] : D \in SUBSET {0, 3} } :
      3 \in DOMAIN types => types[3] = "full" }

\* market-minutes-cache.ts:310-319  loadHolidayCache
LoadHolidayCache(types) ==
  /\ ~holidayCache.loaded
  /\ holidayCache' = [loaded |-> TRUE, types |-> types]
  /\ UNCHANGED << now, expiryDate, expiryMinutesMap, minutesCall, rangeCall >>

\* The wall clock advances within the day or to the next midnight.
ClockAdvance(day, minute) ==
  /\ \/ day = now.day /\ minute > now.minute
     \/ day = now.day + 1 /\ minute = 0
  /\ now' = [day |-> day, minute |-> minute]
  /\ UNCHANGED << holidayCache, expiryDate, expiryMinutesMap, minutesCall, rangeCall >>

\* market-minutes-cache.ts:35-51  a getMarketMinutesTillExpiry(expiryDate)
\* call.  `fresh` is what calculateMarketMinutesTillExpiry returns at this
\* clock for a valid expiry; the prev fields are the result and `fresh` of
\* the call before when that was made on the same day with the calendar
\* loaded.
QueryMinutesTillExpiry ==
  LET call  == getMarketMinutesTillExpiry(expiryDate, now, holidayCache, expiryMinutesMap)
      fresh == IF isValidExpiryDate(expiryDate, now.day)
               THEN calculateMarketMinutesTillExpiry(expiryDate, now, holidayCache).value
               ELSE Undefined
      same  == minutesCall.done /\ minutesCall.day = now.day /\ minutesCall.loaded
  IN  /\ expiryMinutesMap' = call.map
      /\ minutesCall' = [done       |-> TRUE,
                         day        |-> now.day,
                         minute     |-> now.minute,
                         loaded     |-> holidayCache.loaded,
                         result     |-> call.value,
                         threw      |-> call.threw,
                         warned     |-> call.warned,
                         fresh      |-> fresh,
                         prevResult |-> IF same THEN minutesCall.result ELSE Undefined,
                         prevFresh  |-> IF same THEN minutesCall.fresh ELSE Undefined]
      /\ UNCHANGED << now, holidayCache, expiryDate, rangeCall >>

\* market-minutes-cache.ts:556-588  a calculateMarketMinutesInRange call
ApplyRange ==
  /\ ~rangeCall.done
  /\ LET call == calculateMarketMinutesInRange(holidayCache, rangeCall.startDate,
                                               rangeCall.endDate)
     IN  rangeCall' = [rangeCall EXCEPT !.done = TRUE, !.result = call.value,
                                        !.threw = call.threw]
  /\ UNCHANGED << now, holidayCache, expiryDate, expiryMinutesMap, minutesCall >>

(***************************************************************************)
(* The sigma chain of MarketMinutesCache (market-minutes-cache.ts) and the *)
(* bounds TickerService.subscribe takes from it.  T stands for             *)
(* getMarketMinutesInLastYear(), N for getMarketMinutesTillExpiry(expiry); *)
(* the inputs are chosen so that every quotient and root is whole.         *)
(***************************************************************************)

\* Annualized volatilities of a sample, minutes of the trailing year and
\* minutes until an expiry a chain is computed with.
Volatilities == {-16, 0, 16}

TrailingMinutes == {0, 16}

ExpiryMinutes == {0, 1, 4, 16}

\* Last prices of a future, in hundredths of a strike step.
LtpValues == { 100 * p : p \in 1..MaxPrice }

\* Math.sqrt on the whole squares
Sqrt(x) == CHOOSE r \in 0..x : r * r <= x /\ (r + 1) * (r + 1) > x

\* market-minutes-cache.ts:154-161
calculateSD(av, T, N) ==
  IF N = 0 \/ T = 0 THEN 0 ELSE av \div Sqrt(T \div N)

\* market-minutes-cache.ts:158-160, 187-189  the denominators calculateSD and
\* calculateSigmaX evaluate
Denominators(sigmaN, T, N) ==
  (IF N = 0 \/ T = 0 THEN {} ELSE {N, Sqrt(T \div N)})
    \cup (IF ~Truthy(sigmaN) \/ sigmaN <= 0 \/ N = 0 \/ T = 0 THEN {} ELSE {N, Sqrt(T \div N)})

\* market-minutes-cache.ts:170-172
calculateSigmaN(sigma, sdMultiplier) == sigma * sdMultiplier

\* market-minutes-cache.ts:181-190
calculateSigmaX(sigmaN, T, N) ==
  IF ~Truthy(sigmaN) \/ sigmaN <= 0 THEN 0
  ELSE IF N = 0 \/ T = 0 THEN 0
  ELSE sigmaN \div Sqrt(T \div N)

\* Mutant of calculateSigmaXI: the put adds the error deviation too.
calculateSigmaXI_PutAdds(sigmaN, sigmaX, optionType) ==
  IF ~Truthy(sigmaN) \/ sigmaN < 0 \/ ~Truthy(sigmaX) \/ sigmaX < 0 THEN 0
  ELSE sigmaN + sigmaX

\* market-minutes-cache.ts:201-204
calculateSigmaXI(sigmaN, sigmaX, optionType) ==
  IF ~Truthy(sigmaN) \/ sigmaN < 0 \/ ~Truthy(sigmaX) \/ sigmaX < 0 THEN 0
  ELSE IF optionType = "CE" THEN sigmaN + sigmaX ELSE sigmaN - sigmaX

\* market-minutes-cache.ts:214-230  what the promise of calculateAllSigmas
\* resolves to
calculateAllSigmas(av, sdMultiplier, T, N, optionType) ==
  LET sigma  == calculateSD(av, T, N)
      sigmaN == calculateSigmaN(sigma, sdMultiplier)
      sigmaX == calculateSigmaX(sigmaN, T, N)
  IN  [sigmaN  |-> sigmaN,
       sigmaX  |-> sigmaX,
       sigmaXI |-> calculateSigmaXI(sigmaN, sigmaX, optionType)]

NoSigmaXICall ==
  [sigmaN |-> 0, sigmaX |-> 0, optionType |-> "CE", done |-> FALSE, result |-> 0]

NoSigmas == [sigmaN |-> 0, sigmaX |-> 0, sigmaXI |-> 0]

NoSigmaCall ==
  [av |-> 0, sdMultiplier |-> 1, T |-> 0, N |-> 0, ltp |-> 0, done |-> FALSE,
   sd |-> 0, ce |-> NoSigmas, pe |-> NoSigmas, denominators |-> {},
   bounds |-> SigmaBounds(0, 1)]

SigmaIdle == sigmaXICall = NoSigmaXICall /\ sigmaCall = NoSigmaCall


\* calculateSigmaXI applied to the arguments of the call
ApplySigmaXI ==
  /\ ~sigmaXICall.done
  /\ sigmaXICall' =
       [sigmaXICall EXCEPT
          !.done = TRUE,
          !.result = calculateSigmaXI(sigmaXICall.sigmaN, sigmaXICall.sigmaX,
                                      sigmaXICall.optionType)]
  /\ UNCHANGED << sigmaCall, volVars, cycleVars >>

\* The chain of one expiry for a sample av, as calculateOptions
\* (ticker.ts:293-305) and subscribe (ticker.ts:354-382) ask for it, and the
\* bounds subscribe is left with
ApplySigmas ==
  /\ ~sigmaCall.done
  /\ LET c == sigmaCall
         ce == calculateAllSigmas(c.av, c.sdMultiplier, c.T, c.N, "CE")
         pe == calculateAllSigmas(c.av, c.sdMultiplier, c.T, c.N, "PE")
     IN  sigmaCall' =
           [c EXCEPT
              !.done = TRUE,
              !.sd = calculateSD(c.av, c.T, c.N),
              !.ce = ce,
              !.pe = pe,
              !.denominators = Denominators(ce.sigmaN, c.T, c.N),
              !.bounds = SigmaBounds(c.ltp, c.sdMultiplier)]
  /\ UNCHANGED << sigmaXICall, volVars, cycleVars >>

(***************************************************************************)
(* The volatility service (services/volatility.ts): one poll per           *)
(* underlying, started by init through setIntervalNow (utils).             *)
(***************************************************************************)

\* shared/config.ts:25
NUMERIC_VIX_SYMBOLS == {"NATURALGAS", "NATGASMINI", "COPPER", "ZINC"}

\* What the quote lookup resolves to (volatility.ts:9-10): regularMarketPrice
\* of the quote, a number or undefined.
QuotePrices == {Undefined} \cup 1..MaxAv

\* The numeric overrides the settings route accepts (z.number().positive()).
VixValues == 1..MaxAv

\* A stored sample {av, dv}; dv is the promise getDvFromAv returned
\* (volatility.ts:48, not awaited) and is left out.
Sample(av) == [av |-> av]

\* A poll that has not run: of an underlying whose setIntervalNow call init
\* has not made.
NoPoll == [pc |-> "idle", failed |-> FALSE]

Fetching == {"first", "second"}

\* Mutant of StartedByInit: init awaits the first poll of a symbol before it
\* goes on to the next.
StartedByInit_FirstOnly(symbols) == {Head(symbols)}

\* volatility.ts:32-54, utils:1-2  the symbols whose first poll init has
\* started when its loop is over: setIntervalNow is not awaited, each call
\* runs the callback up to `await getAv()` and returns
StartedByInit(symbols) == Range(symbols)

\* Mutant of AfterPoll: the callback is scheduled again after every call.
AfterPoll_Interval(pc) == "timer"

\* utils:2-3  after the awaited first call one setTimeout is set; the call it
\* makes schedules nothing
AfterPoll(pc) == IF pc = "first" THEN "timer" ELSE "stopped"

\* Mutant of AfterFailure: a failed poll removes the sample.
AfterFailure_Drops(values, symbol) ==
  [u \in DOMAIN values \ {symbol} |-> values[u]]

\* volatility.ts:50-52  the catch logs
AfterFailure(values, symbol) == values

\* volatility.ts:49
AfterSuccess(values, symbol, av) ==
  [u \in DOMAIN values \cup {symbol} |-> IF u = symbol THEN Sample(av) ELSE values[u]]

\* settings.ts:29-40, 101-110  the defaults of the settings store
DefaultVix == [u \in NUMERIC_VIX_SYMBOLS \cap CONFIG_SYMBOLS |-> 1]

VolIdle ==
  /\ volValues = << >>
  /\ volPolls = [u \in CONFIG_SYMBOLS |-> NoPoll]
  /\ vixSetting = DefaultVix

\* worker.ts:41,71, volatility.ts:28-56  init
VolInit ==
  /\ \A u \in CONFIG_SYMBOLS : volPolls[u].pc = "idle"
  /\ symbolsFilter # << >>
  /\ volPolls' = [u \in CONFIG_SYMBOLS |->
                    IF u \in StartedByInit(symbolsFilter)
                    THEN [pc |-> "first", failed |-> FALSE]
                    ELSE volPolls[u]]
  /\ UNCHANGED << volValues, vixSetting >>

\* volatility.ts:36-49  getAv of the poll of `symbol` resolves with av: the
\* stored override of a numeric-VIX symbol, else the quote's price
PollResolve(symbol, av) ==
  /\ volPolls[symbol].pc \in Fetching
  /\ IF symbol \in NUMERIC_VIX_SYMBOLS THEN av = vixSetting[symbol] ELSE av \in QuotePrices
  /\ volValues' = AfterSuccess(volValues, symbol, av)
  /\ volPolls' = [volPolls EXCEPT ![symbol] = [pc |-> AfterPoll(@.pc), failed |-> FALSE]]
  /\ UNCHANGED vixSetting

\* volatility.ts:47, 50-52  getAv of the poll of `symbol` rejects
PollReject(symbol) ==
  /\ volPolls[symbol].pc \in Fetching
  /\ volValues' = AfterFailure(volValues, symbol)
  /\ volPolls' = [volPolls EXCEPT ![symbol] = [pc |-> AfterPoll(@.pc), failed |-> TRUE]]
  /\ UNCHANGED vixSetting

\* utils:3  the timer of `symbol` fires and calls the callback
PollTimer(symbol) ==
  /\ volPolls[symbol].pc = "timer"
  /\ volPolls' = [volPolls EXCEPT ![symbol].pc = "second"]
  /\ UNCHANGED << volValues, vixSetting >>

\* settings route PUT /commodities/:symbol, settings.ts:153-161  setVix
SetVix(symbol, value) ==
  /\ symbol \in DOMAIN vixSetting
  /\ vixSetting' = [vixSetting EXCEPT ![symbol] = value]
  /\ UNCHANGED << volValues, volPolls >>

(***************************************************************************)
(* The recompute cycle: the timer of TickerService.init that calls         *)
(* calculateOptions and publishes its result (services/ticker.ts).         *)
(* Amounts are whole numbers: a bid step is BidStep times the bidBalance   *)
(* of the underlying, a margin step MarginStep times the value of a lot.   *)
(***************************************************************************)

\* The result of an arithmetic operation on a value that is not a number.
NaN == -2

BidStep == 2

MarginStep == 2

\* instrument.lotSize, in lots
LotSize == 1

\* shared/config.ts:9-18, ticker.ts:276-278  the cached settings of the
\* underlying, else its CONFIG entry: an underlying without either has none
HasCommodityConfig(name) == name \in CONFIG_SYMBOLS

CommodityConfig(name) == [bidBalance |-> 1, multiplier |-> 2]

\* ticker.ts:267  volatilityService.values[instrument.name]?.av
SampleAv(values, name) == IF name \in DOMAIN values THEN values[name].av ELSE Undefined

\* ticker.ts:308-310  the quotient of the promises that the async
\* getMarketMinutesTillExpiry and getMarketMinutesInLastYear return
MinutesRatio == NaN

Abs(x) == IF x < 0 THEN -x ELSE x

\* utils/delta  Black-Scholes delta with zero rate and dividend: N(d1) of a
\* call, N(d1) - 1 of a put, to the nearest whole; a T that is not a number
\* makes d1 and the delta not a number
calculateDeltas(underlyingLtp, strike, av, T, optionType) ==
  IF T = NaN THEN NaN
  ELSE IF optionType = "CE" THEN (IF underlyingLtp >= strike THEN 1 ELSE 0)
  ELSE (IF underlyingLtp >= strike THEN 0 ELSE -1)

\* ticker.ts:282-291  sellValue of an entry with a bid (else 0)
SellValue(entry, config) ==
  IF Truthy(entry.bid)
  THEN (BidStep * entry.bid - config.bidBalance) * LotSize * config.multiplier
  ELSE 0

\* ticker.ts:282-291  returnValue: written when the entry has a bid and a
\* positive margin, kept when it has a bid and no positive margin, 0 without
\* a bid
ReturnValue(entry, sellValue) ==
  IF Truthy(entry.bid)
  THEN IF entry.orderMargin > 0 THEN sellValue \div (MarginStep * entry.orderMargin)
       ELSE entry.returnValue
  ELSE 0

\* ticker.ts:320-325  addedValue
AddedValue(delta, returnValue) ==
  IF delta # 0 /\ Truthy(returnValue)
  THEN IF delta = NaN THEN NaN ELSE returnValue \div Abs(delta)
  ELSE 0

\* ticker.ts:271-325  the body of the loop for an entry with a sample
Recomputed(entry, token, av, ltps) ==
  LET row           == InstrumentOf(token)
      futExpiry     == FutExpiry(ltps, entry.name, row.expiry)
      underlyingLtp == IF futExpiry = Undefined THEN Undefined ELSE ltps[entry.name][futExpiry]
      sellValue     == SellValue(entry, CommodityConfig(entry.name))
      returnValue   == ReturnValue(entry, sellValue)
      delta         == calculateDeltas(underlyingLtp, row.strike, av, MinutesRatio,
                                       row.instrumentType)
  IN  [entry EXCEPT !.sellValue   = sellValue,
                    !.returnValue = returnValue,
                    !.addedValue  = AddedValue(delta, returnValue)]

\* Mutant of EntryOutcome: an entry without a sample ends the loop.
EntryOutcome_SkipAborts(entry, values, ltps) ==
  IF ~Truthy(SampleAv(values, entry.name)) THEN "threw"
  ELSE IF ~HasCommodityConfig(entry.name) \/ entry.name \notin DOMAIN ltps THEN "threw"
  ELSE "recomputed"

\* ticker.ts:267-279  what the loop does with an entry: `continue` without a
\* sample; a TypeError, which nothing in the loop or in the timer callback
\* catches, when the underlying has no settings to destructure or no last
\* prices to index; else the body
EntryOutcome(entry, values, ltps) ==
  IF ~Truthy(SampleAv(values, entry.name)) THEN "skipped"
  ELSE IF ~HasCommodityConfig(entry.name) \/ entry.name \notin DOMAIN ltps THEN "threw"
  ELSE "recomputed"

\* ticker.ts:265-326  the loop over Object.values(this.optionChain) from
\* `tokens` on
RECURSIVE calculateOptions(_, _, _, _)
calculateOptions(cycle, tokens, values, ltps) ==
  IF tokens = << >> THEN cycle
  ELSE LET token   == Head(tokens)
           entry   == cycle.chain[token]
           outcome == EntryOutcome(entry, values, ltps)
       IN  IF outcome = "threw" THEN [cycle EXCEPT !.threw = TRUE]
           ELSE IF outcome = "skipped"
           THEN calculateOptions([cycle EXCEPT !.skipped = @ \cup {token}],
                                 Tail(tokens), values, ltps)
           ELSE calculateOptions(
                  [cycle EXCEPT
                     !.chain[token] = Recomputed(entry, token,
                                                 SampleAv(values, entry.name), ltps),
                     !.recomputed = @ \cup {token}],
                  Tail(tokens), values, ltps)

\* ticker.ts:328  the entries of the snapshot
SnapshotFilter(chain) == { t \in DOMAIN chain : chain[t].sellValue > chain[t].returnValue }

\* Mutant of KeptEntries: the entries left out of the snapshot are deleted.
KeptEntries_OnlySnapshot(chain, snapshot) == [t \in snapshot |-> chain[t]]

\* ticker.ts:328  Array.prototype.filter returns a new array: the record the
\* entries live in keeps every one of them
KeptEntries(chain, snapshot) == chain

\* No recompute cycle yet.
NoCycle ==
  [ran |-> FALSE, live |-> {}, sampled |-> {}, skipped |-> {}, recomputed |-> {},
   threw |-> FALSE, published |-> FALSE, optionsMap |-> {}, readmitted |-> {}]

CycleIdle == lastCycle = NoCycle

MetricIdle == SigmaIdle /\ VolIdle /\ CycleIdle

\* ticker.ts:168-180, 265-329  the recompute timer of an engine with a data
\* callback fires: every live entry with a sample is recomputed and the
\* entries that pass the snapshot filter go to the callback; an exception of
\* the loop leaves the callback uncalled and ends the process
Recompute ==
  LET cycle == calculateOptions([chain |-> optionChain, skipped |-> {}, recomputed |-> {},
                                 threw |-> FALSE],
                                SortedSeq(DOMAIN optionChain), volValues, futureLtps)
      optionsMap == IF cycle.threw THEN {} ELSE SnapshotFilter(cycle.chain)
  IN  /\ dataCallback /\ ~lastCycle.threw
      /\ optionChain' = KeptEntries(cycle.chain, SnapshotFilter(cycle.chain))
      /\ lastCycle' = [ran        |-> TRUE,
                       live       |-> DOMAIN optionChain,
                       sampled    |-> { t \in DOMAIN optionChain :
                                          Truthy(SampleAv(volValues, optionChain[t].name)) },
                       skipped    |-> cycle.skipped,
                       recomputed |-> cycle.recomputed,
                       threw      |-> cycle.threw,
                       published  |-> ~cycle.threw,
                       optionsMap |-> optionsMap,
                       readmitted |-> optionsMap \cap (lastCycle.live \ lastCycle.optionsMap)]
      /\ UNCHANGED << isFetchingMargins, marginRuns, lastFetch >>

(***************************************************************************)
(* Specifications.                                                         *)
(***************************************************************************)

\* The margin fetcher of one engine.
InitMargin == EngineInit /\ ShardInit /\ WsInit /\ SelIdle /\ CalIdle /\ MetricIdle /\ dataCallback = FALSE

NextMargin ==
  \/ MarginTick /\ UNCHANGED << shardVars, wsVars, selVars, calVars, metricVars >>
  \/ \E i \in 1..Len(marginRuns) : RpcReturn(i) /\ UNCHANGED << shardVars, wsVars, selVars, calVars, metricVars >>
  \/ \E i \in 1..Len(marginRuns) : RpcThrow(i) /\ UNCHANGED << shardVars, wsVars, selVars, calVars, metricVars >>

SpecMargin == InitMargin /\ [][NextMargin]_vars

\* The same with a margin timer that keeps firing (setInterval,
\* ticker.ts:194-201) and RPC calls that each return or fail.
SpecMarginFair ==
  /\ SpecMargin
  /\ WF_vars(MarginTick /\ UNCHANGED << shardVars, wsVars, selVars, calVars, metricVars >>)
  /\ WF_vars(\E i \in 1..Len(marginRuns) :
               (RpcReturn(i) \/ RpcThrow(i))
                 /\ UNCHANGED << shardVars, wsVars, selVars, calVars, metricVars >>)

\* Start-up and shutdown of the coordinator and its workers.
InitLife == EngineIdle /\ ShardInit /\ WsInit /\ SelIdle /\ CalIdle /\ MetricIdle /\ dataCallback = TRUE

NextLife ==
  \/ CoordSessionExpired /\ UNCHANGED << marginVars, wsVars, selVars, calVars, metricVars >>
  \/ CoordSpawnWorkers /\ UNCHANGED << marginVars, wsVars, selVars, calVars, metricVars >>
  \/ \E w \in Workers : CoordRecvReady(w) /\ UNCHANGED << marginVars, wsVars, selVars, calVars, metricVars >>
  \/ \E w \in Workers : CoordRecvError(w) /\ UNCHANGED << marginVars, wsVars, selVars, calVars, metricVars >>
  \/ \E w \in Workers : CoordErrorEvent(w) /\ UNCHANGED << marginVars, wsVars, selVars, calVars, metricVars >>
  \/ \E w \in Workers : CoordReadyTimeout(w) /\ UNCHANGED << marginVars, wsVars, selVars, calVars, metricVars >>
  \/ \E w \in Workers : CoordExitEvent(w) /\ UNCHANGED << marginVars, wsVars, selVars, calVars, metricVars >>
  \/ CoordSendSubscribe /\ UNCHANGED << marginVars, wsVars, selVars, calVars, metricVars >>
  \/ CoordShutdown /\ UNCHANGED << marginVars, wsVars, selVars, calVars, metricVars >>
  \/ CoordShutdownAllExited /\ UNCHANGED << marginVars, wsVars, selVars, calVars, metricVars >>
  \/ CoordShutdownGrace /\ UNCHANGED << marginVars, wsVars, selVars, calVars, metricVars >>
  \/ \E w \in Workers : WorkerInitStep(w) /\ UNCHANGED << marginVars, wsVars, selVars, calVars, metricVars >>
  \/ \E w \in Workers : WorkerInitFail(w) /\ UNCHANGED << marginVars, wsVars, selVars, calVars, metricVars >>
  \/ \E w \in Workers : WorkerReady(w) /\ UNCHANGED << marginVars, wsVars, selVars, calVars, metricVars >>
  \/ \E w \in Workers : WorkerMainThrows(w) /\ UNCHANGED << marginVars, wsVars, selVars, calVars, metricVars >>
  \/ \E w \in Workers : WorkerSpawnError(w) /\ UNCHANGED << marginVars, wsVars, selVars, calVars, metricVars >>
  \/ \E w \in Workers : WorkerCrash(w) /\ UNCHANGED << marginVars, wsVars, selVars, calVars, metricVars >>
  \/ \E w \in Workers : WorkerRecvShutdown(w) /\ UNCHANGED << marginVars, wsVars, selVars, calVars, metricVars >>
  \/ \E w \in Workers : WorkerSigterm(w) /\ UNCHANGED << marginVars, wsVars, selVars, calVars, metricVars >>
  \/ \E w \in Workers : WorkerRecvSubscribe(w) /\ UNCHANGED << marginVars, wsVars, selVars, calVars, metricVars >>

SpecLife == InitLife /\ [][NextLife]_vars

\* Start-up of the workers up to the first 'subscribe', with the outcomes of
\* the reference-data load.
InitBoot == EngineIdle /\ ShardInit /\ WsInit /\ SelIdle /\ CalIdle /\ MetricIdle /\ dataCallback = TRUE

NextBoot ==
  \/ CoordSpawnWorkers /\ UNCHANGED << marginVars, wsVars, selVars, calVars, metricVars >>
  \/ \E w \in Workers : CoordRecvReady(w) /\ UNCHANGED << marginVars, wsVars, selVars, calVars, metricVars >>
  \/ \E w \in Workers : CoordRecvError(w) /\ UNCHANGED << marginVars, wsVars, selVars, calVars, metricVars >>
  \/ \E w \in Workers : CoordReadyTimeout(w) /\ UNCHANGED << marginVars, wsVars, selVars, calVars, metricVars >>
  \/ \E w \in Workers : CoordExitEvent(w) /\ UNCHANGED << marginVars, wsVars, selVars, calVars, metricVars >>
  \/ CoordSendSubscribe /\ UNCHANGED << marginVars, wsVars, selVars, calVars, metricVars >>
  \/ \E w \in Workers : WorkerInitStep(w) /\ UNCHANGED << marginVars, wsVars, selVars, calVars, metricVars >>
  \/ \E w \in Workers : WorkerCacheLoadFails(w) /\ UNCHANGED << marginVars, wsVars, selVars, calVars, metricVars >>
  \/ \E w \in Workers : WorkerInitFail(w) /\ UNCHANGED << marginVars, wsVars, selVars, calVars, metricVars >>
  \/ \E w \in Workers : WorkerReady(w) /\ UNCHANGED << marginVars, wsVars, selVars, calVars, metricVars >>
  \/ \E w \in Workers : WorkerMainThrows(w) /\ UNCHANGED << marginVars, wsVars, selVars, calVars, metricVars >>
  \/ \E w \in Workers : WorkerRecvSubscribe(w) /\ UNCHANGED << marginVars, wsVars, selVars, calVars, metricVars >>

SpecBoot == InitBoot /\ [][NextBoot]_vars

\* One browser client: its component mounts and unmounts, its sockets open
\* and close, its reconnect timers fire.
InitHook == EngineIdle /\ ShardInit /\ WsInit /\ SelIdle /\ CalIdle /\ MetricIdle /\ dataCallback = TRUE

HookFrame == UNCHANGED << dataCallback, clients, engineSent, marginVars, shardVars, selVars, calVars, metricVars >>

NextHook ==
  \/ HookConnect /\ HookFrame
  \/ HookDisconnect /\ HookFrame
  \/ \E i \in 1..Len(hook.sockets) : SocketOpen(i) /\ HookFrame
  \/ \E i \in 1..Len(hook.sockets) : SocketDrop(i) /\ HookFrame
  \/ \E i \in 1..Len(hook.sockets) : SocketCloseEvent(i) /\ HookFrame
  \/ \E t \in hook.timers : ReconnectTimer(t) /\ HookFrame

SpecHook == InitHook /\ [][NextHook]_vars

\* The snapshot flow, workers to aggregate, of a group that starts without
\* failures.
InitData == EngineIdle /\ ShardInit /\ WsInit /\ SelIdle /\ CalIdle /\ MetricIdle /\ dataCallback = TRUE

NextData ==
  \/ CoordSpawnWorkers /\ UNCHANGED << marginVars, wsVars, selVars, calVars, metricVars >>
  \/ \E w \in Workers : CoordRecvReady(w) /\ UNCHANGED << marginVars, wsVars, selVars, calVars, metricVars >>
  \/ CoordSendSubscribe /\ UNCHANGED << marginVars, wsVars, selVars, calVars, metricVars >>
  \/ \E w \in Workers : WorkerInitStep(w) /\ UNCHANGED << marginVars, wsVars, selVars, calVars, metricVars >>
  \/ \E w \in Workers : WorkerReady(w) /\ UNCHANGED << marginVars, wsVars, selVars, calVars, metricVars >>
  \/ \E w \in Workers : WorkerRecvSubscribe(w) /\ UNCHANGED << marginVars, wsVars, selVars, calVars, metricVars >>
  \/ \E w \in Workers : WorkerRecompute(w) /\ UNCHANGED << marginVars, wsVars, selVars, calVars, metricVars >>
  \/ \E w \in Workers : CoordRecvOptionChain(w) /\ UNCHANGED << marginVars, wsVars, selVars, calVars, metricVars >>
  \/ CoordRepublish /\ UNCHANGED << marginVars, wsVars, selVars, calVars, metricVars >>

SpecData == InitData /\ [][NextData]_vars

\* A group at steady state: every worker is ready and subscribed, and one
\* snapshot of each has been merged into the aggregate.
SteadyInit ==
  /\ coordPc = "steady"
  /\ coordExit = "running"
  /\ serverStarted = TRUE
  /\ readyPromise = [w \in Workers |-> "resolved"]
  /\ timeoutArmed = [w \in Workers |-> FALSE]
  /\ workerKilled = [w \in Workers |-> FALSE]
  /\ errorEvent = [w \in Workers |-> FALSE]
  /\ exitEmitted = [w \in Workers |-> FALSE]
  /\ shutdownPc = "idle"
  /\ shutdownExitSeen = {}
  /\ \E aggregate \in SUBSET Tokens :
       /\ aggregatedOptionChain = aggregate
       /\ workerChain = [w \in Workers |-> aggregate \cap TokensOfSymbols(WORKER_GROUPS[w])]
       /\ lastSnapshot = workerChain
       /\ contributors = [t \in Tokens |->
                            IF t \in aggregate
                            THEN { w \in Workers : t \in TokensOfSymbols(WORKER_GROUPS[w]) }
                            ELSE {}]
  /\ latestAliased = FALSE
  /\ connectedClients = << >>
  /\ clientLast = [c \in ClientIds |-> NoMessage]
  /\ wPc = [w \in Workers |-> "ready"]
  /\ wExit = [w \in Workers |-> "running"]
  /\ feedConnected = [w \in Workers |-> TRUE]
  /\ sigterm = [w \in Workers |-> FALSE]
  /\ toCoord = [w \in Workers |-> << >>]
  /\ toWorker = [w \in Workers |-> << >>]
  /\ runtimeCache = [w \in Workers |-> "empty"]

\* The WebSocket clients of a coordinator at steady state, and those of an
\* engine that runs without a coordinator.
InitClients ==
  /\ WsInit
  /\ \/ dataCallback = TRUE /\ EngineIdle /\ SteadyInit
     \/ dataCallback = FALSE /\ EngineInit /\ ShardInit
  /\ SelIdle /\ CalIdle /\ MetricIdle

NextClients ==
  \/ CoordRepublish /\ UNCHANGED << marginVars, wsVars, selVars, calVars, metricVars >>
  \/ \E c \in ClientIds : ClientOpen(c) /\ UNCHANGED << marginVars, wsVars, selVars, calVars, metricVars >>
  \/ \E c \in ClientIds : ClientSubscribe(c) /\ UNCHANGED << marginVars, wsVars, selVars, calVars, metricVars >>
  \/ \E c \in ClientIds : ClientUnsubscribe(c) /\ UNCHANGED << marginVars, wsVars, selVars, calVars, metricVars >>
  \/ \E c \in ClientIds : ClientClose(c) /\ UNCHANGED << marginVars, wsVars, selVars, calVars, metricVars >>
  \/ EngineRecompute
  \/ \E c \in ClientIds : EngineAddClient(c)
  \/ \E c \in ClientIds : EngineSubscribeClient(c)
  \/ \E c \in ClientIds : EngineUnsubscribeClient(c)
  \/ \E c \in ClientIds : EngineRemoveClient(c)

SpecClients == InitClients /\ [][NextClients]_vars

\* Contract selection of the engine of the first worker, with the feed's
\* ticks between its awaits.
InitSelect ==
  EngineIdle /\ ShardInit /\ WsInit /\ SelIdle /\ CalIdle /\ MetricIdle /\ dataCallback = TRUE

NextSelect ==
  \/ \E sdMultiplier \in SdMultipliers :
       SubscribeAllStart(sdMultiplier) /\ UNCHANGED << shardVars, wsVars, calVars, metricVars >>
  \/ \E i \in 1..Len(subscribeRuns) :
       SubscribeExpiries(i) /\ UNCHANGED << shardVars, wsVars, calVars, metricVars >>
  \/ \E i \in 1..Len(subscribeRuns) :
       SubscribeOptions(i) /\ UNCHANGED << shardVars, wsVars, calVars, metricVars >>
  \/ \E future \in Futures, price \in Prices :
       FutureTick(future, price) /\ UNCHANGED << shardVars, wsVars, calVars, metricVars >>
  \/ \E token \in Tokens, bid \in 0..MaxBid :
       OptionTick(token, bid) /\ UNCHANGED << shardVars, wsVars, calVars, metricVars >>

SpecSelect == InitSelect /\ [][NextSelect]_vars

\* The engine of the second worker: contract selection with the feed's ticks
\* and the margin fetcher between its awaits.
InitEngine ==
  /\ EngineIdle /\ ShardInit /\ WsInit /\ CalIdle /\ MetricIdle /\ dataCallback = TRUE
  /\ FilterIdle /\ SelectIdleOf(2)

NextEngine ==
  \/ NextSelect
  \/ MarginTick /\ UNCHANGED << shardVars, wsVars, selVars, calVars, metricVars >>
  \/ \E i \in 1..Len(marginRuns) : RpcReturn(i) /\ UNCHANGED << shardVars, wsVars, selVars, calVars, metricVars >>
  \/ \E i \in 1..Len(marginRuns) : RpcThrow(i) /\ UNCHANGED << shardVars, wsVars, selVars, calVars, metricVars >>

SpecEngine == InitEngine /\ [][NextEngine]_vars

\* The minute queries of one expiry string while the clock runs and the
\* calendar is loaded.
InitCal ==
  /\ EngineIdle /\ ShardInit /\ WsInit /\ SelIdle /\ MetricIdle /\ dataCallback = TRUE
  /\ now \in [day : ClockDays, minute : ClockTimes]
  /\ holidayCache = NotLoaded
  /\ expiryDate \in ExpiryTexts
  /\ expiryMinutesMap = << >>
  /\ minutesCall = NoMinutesCall
  /\ rangeCall = NoRangeCall

NextCal ==
  \/ \E types \in HolidayCalendars :
       LoadHolidayCache(types) /\ UNCHANGED << marginVars, shardVars, wsVars, selVars, metricVars >>
  \/ \E day \in ClockDays, minute \in ClockTimes :
       ClockAdvance(day, minute) /\ UNCHANGED << marginVars, shardVars, wsVars, selVars, metricVars >>
  \/ QueryMinutesTillExpiry /\ UNCHANGED << marginVars, shardVars, wsVars, selVars, metricVars >>

SpecCal == InitCal /\ [][NextCal]_vars

\* The same with a clock that keeps running and queries that keep coming.
SpecCalFair ==
  /\ SpecCal
  /\ WF_vars(\E day \in ClockDays, minute \in ClockTimes :
               ClockAdvance(day, minute) /\ UNCHANGED << marginVars, shardVars, wsVars, selVars, metricVars >>)
  /\ WF_vars(QueryMinutesTillExpiry /\ UNCHANGED << marginVars, shardVars, wsVars, selVars, metricVars >>)

\* calculateMarketMinutesInRange on every range of the clock's days and
\* every calendar, loaded or not.
InitRange ==
  /\ EngineIdle /\ ShardInit /\ WsInit /\ SelIdle /\ MetricIdle /\ dataCallback = TRUE
  /\ now = [day |-> 0, minute |-> 0]
  /\ \/ holidayCache = NotLoaded
     \/ \E types \in UNION { [D -> HolidayTypes] : D \in SUBSET ClockDays } :
          holidayCache = [loaded |-> TRUE, types |-> types]
  /\ expiryDate = [form |-> "iso", day |-> 0]
  /\ expiryMinutesMap = << >>
  /\ minutesCall = NoMinutesCall
  /\ \E startDate \in ClockDays, endDate \in ClockDays :
       rangeCall = [NoRangeCall EXCEPT !.startDate = startDate, !.endDate = endDate]

NextRange == ApplyRange /\ UNCHANGED << marginVars, shardVars, wsVars, selVars, metricVars >>

SpecRange == InitRange /\ [][NextRange]_vars

\* The sigma chain on every sample, multiplier and pair of minute counts, and
\* calculateSigmaXI on every pair of deviations.
InitSigma ==
  /\ EngineIdle /\ ShardInit /\ WsInit /\ SelIdle /\ CalIdle /\ VolIdle /\ CycleIdle /\ dataCallback = TRUE
  /\ \E sigmaN \in -1..MaxSd, sigmaX \in -1..MaxSd, optionType \in {"CE", "PE"} :
       sigmaXICall = [NoSigmaXICall EXCEPT !.sigmaN = sigmaN, !.sigmaX = sigmaX,
                                          !.optionType = optionType]
  /\ \E av \in Volatilities, sdMultiplier \in SdMultipliers, T \in TrailingMinutes,
        N \in ExpiryMinutes, ltp \in LtpValues :
       sigmaCall = [NoSigmaCall EXCEPT !.av = av, !.sdMultiplier = sdMultiplier,
                                      !.T = T, !.N = N, !.ltp = ltp]

NextSigma ==
  \/ ApplySigmaXI /\ UNCHANGED << marginVars, shardVars, wsVars, selVars, calVars >>
  \/ ApplySigmas /\ UNCHANGED << marginVars, shardVars, wsVars, selVars, calVars >>

SpecSigma == InitSigma /\ [][NextSigma]_vars

\* The volatility polls of the first worker's symbols, with the numeric
\* overrides changed at any time.
InitVol ==
  EngineIdle /\ ShardInit /\ WsInit /\ SelIdle /\ CalIdle /\ MetricIdle /\ dataCallback = TRUE

NextVol ==
  \/ VolInit /\ UNCHANGED << marginVars, shardVars, wsVars, selVars, calVars, sigmaVars, cycleVars >>
  \/ \E symbol \in CONFIG_SYMBOLS, av \in QuotePrices :
       PollResolve(symbol, av)
         /\ UNCHANGED << marginVars, shardVars, wsVars, selVars, calVars, sigmaVars, cycleVars >>
  \/ \E symbol \in CONFIG_SYMBOLS :
       PollReject(symbol)
         /\ UNCHANGED << marginVars, shardVars, wsVars, selVars, calVars, sigmaVars, cycleVars >>
  \/ \E symbol \in CONFIG_SYMBOLS :
       PollTimer(symbol)
         /\ UNCHANGED << marginVars, shardVars, wsVars, selVars, calVars, sigmaVars, cycleVars >>
  \/ \E symbol \in CONFIG_SYMBOLS, value \in VixValues :
       SetVix(symbol, value)
         /\ UNCHANGED << marginVars, shardVars, wsVars, selVars, calVars, sigmaVars, cycleVars >>

SpecVol == InitVol /\ [][NextVol]_vars

\* The same with polls whose lookups keep resolving and timers that fire.
SpecVolFair ==
  /\ SpecVol
  /\ WF_vars(VolInit /\ UNCHANGED << marginVars, shardVars, wsVars, selVars, calVars, sigmaVars, cycleVars >>)
  /\ \A symbol \in Range(WORKER_GROUPS[1]) :
       /\ WF_vars(PollTimer(symbol)
                    /\ UNCHANGED << marginVars, shardVars, wsVars, selVars, calVars, sigmaVars, cycleVars >>)
       /\ SF_vars(\E av \in QuotePrices :
                    PollResolve(symbol, av)
                      /\ UNCHANGED << marginVars, shardVars, wsVars, selVars, calVars,
                                      sigmaVars, cycleVars >>)

\* worker.ts:71, volatility.ts:28-56  the polls of worker w after init and
\* the timers.  Of an underlying with contracts whose volatility is a quote
\* the first poll failed or stored the price (`quoted`) and the second poll
\* is in flight; the polls of an underlying without contracts failed; the
\* polls of a numeric-VIX underlying stored the override.
VolPolledOf(w, quoted) ==
  LET symbols  == Range(WORKER_GROUPS[w])
      traded   == { InstrumentOf(t).name : t \in TokensOfSymbols(WORKER_GROUPS[w]) }
      numeric  == symbols \cap NUMERIC_VIX_SYMBOLS
      sampled  == numeric \cup (IF quoted THEN traded \ numeric ELSE {})
  IN  /\ volValues = [u \in sampled |->
                        IF u \in numeric THEN Sample(DefaultVix[u]) ELSE Sample(MaxAv)]
      /\ volPolls = [u \in CONFIG_SYMBOLS |->
                       IF u \in numeric THEN [pc |-> "stopped", failed |-> FALSE]
                       ELSE IF u \in traded THEN [pc |-> "second", failed |-> ~quoted]
                       ELSE IF u \in symbols THEN [pc |-> "stopped", failed |-> TRUE]
                       ELSE NoPoll]
      /\ vixSetting = DefaultVix

\* The engine of the first worker with its recompute timer: contract
\* selection, the feed's ticks and the poll in flight.
InitCycle ==
  /\ EngineIdle /\ ShardInit /\ WsInit /\ SelIdle /\ CalIdle /\ dataCallback = TRUE
  /\ SigmaIdle /\ CycleIdle
  /\ \E quoted \in BOOLEAN : VolPolledOf(1, quoted)

NextCycle ==
  \/ SubscribeAllStart(1) /\ UNCHANGED << shardVars, wsVars, calVars, metricVars >>
  \/ \E i \in 1..Len(subscribeRuns) :
       SubscribeExpiries(i) /\ UNCHANGED << shardVars, wsVars, calVars, metricVars >>
  \/ \E i \in 1..Len(subscribeRuns) :
       SubscribeOptions(i) /\ UNCHANGED << shardVars, wsVars, calVars, metricVars >>
  \/ \E future \in Futures :
       FutureTick(future, 1) /\ UNCHANGED << shardVars, wsVars, calVars, metricVars >>
  \/ \E token \in Tokens, bid \in 0..MaxBid :
       OptionTick(token, bid) /\ UNCHANGED << shardVars, wsVars, calVars, metricVars >>
  \/ \E av \in QuotePrices :
       PollResolve("GOLD", av)
         /\ UNCHANGED << marginVars, shardVars, wsVars, selVars, calVars, sigmaVars, cycleVars >>
  \/ PollReject("GOLD")
       /\ UNCHANGED << marginVars, shardVars, wsVars, selVars, calVars, sigmaVars, cycleVars >>
  \/ Recompute /\ UNCHANGED << shardVars, wsVars, selVars, calVars, sigmaVars, volVars >>

SpecCycle == InitCycle /\ [][NextCycle]_vars

\* The engine of the second worker with its recompute timer and its margin
\* fetcher, one subscribeAll at a time.
InitCycleMargin ==
  /\ EngineIdle /\ ShardInit /\ WsInit /\ CalIdle /\ dataCallback = TRUE
  /\ FilterIdle /\ SelectIdleOf(2)
  /\ SigmaIdle /\ CycleIdle
  /\ \E quoted \in BOOLEAN : VolPolledOf(2, quoted)

NextCycleMargin ==
  \/ subscribeRuns = << >> /\ SubscribeAllStart(1) /\ UNCHANGED << shardVars, wsVars, calVars, metricVars >>
  \/ \E i \in 1..Len(subscribeRuns) :
       SubscribeExpiries(i) /\ UNCHANGED << shardVars, wsVars, calVars, metricVars >>
  \/ \E i \in 1..Len(subscribeRuns) :
       SubscribeOptions(i) /\ UNCHANGED << shardVars, wsVars, calVars, metricVars >>
  \/ \E future \in Futures :
       FutureTick(future, 1) /\ UNCHANGED << shardVars, wsVars, calVars, metricVars >>
  \/ \E token \in Tokens, bid \in 0..MaxBid :
       OptionTick(token, bid) /\ UNCHANGED << shardVars, wsVars, calVars, metricVars >>
  \/ MarginTick /\ UNCHANGED << shardVars, wsVars, selVars, calVars, metricVars >>
  \/ \E i \in 1..Len(marginRuns) :
       RpcReturn(i) /\ UNCHANGED << shardVars, wsVars, selVars, calVars, metricVars >>
  \/ \E i \in 1..Len(marginRuns) :
       RpcThrow(i) /\ UNCHANGED << shardVars, wsVars, selVars, calVars, metricVars >>
  \/ \E av \in QuotePrices :
       PollResolve("SILVER", av)
         /\ UNCHANGED << marginVars, shardVars, wsVars, selVars, calVars, sigmaVars, cycleVars >>
  \/ PollReject("SILVER")
       /\ UNCHANGED << marginVars, shardVars, wsVars, selVars, calVars, sigmaVars, cycleVars >>
  \/ Recompute /\ UNCHANGED << shardVars, wsVars, selVars, calVars, sigmaVars, volVars >>

SpecCycleMargin == InitCycleMargin /\ [][NextCycleMargin]_vars

\* The strike filter on every table of option rows and every pair of bounds.
InitStrikeFilter ==
  /\ EngineIdle /\ ShardInit /\ WsInit /\ dataCallback = TRUE /\ CalIdle /\ SelectIdle
  /\ MetricIdle /\ InitFilter

NextStrikeFilter ==
  ApplyFilter /\ UNCHANGED << marginVars, shardVars, wsVars, calVars, metricVars, symbolsFilter,
                              subscribedTokens, futureLtps, subscribeRuns, selHist, upstream >>

SpecFilter == InitStrikeFilter /\ [][NextStrikeFilter]_vars

(***************************************************************************)
(* Properties of the snapshot flow (SpecClients and SpecData).             *)
(***************************************************************************)

OnlySubscribed(message) ==
  message.sent => \A t \in message.data : InstrumentOf(t).name \in message.symbols

C2_AggregateIsLatestSnapshots ==
  coordPc = "steady" =>
    aggregatedOptionChain = UNION { lastSnapshot[w] : w \in Workers }

\* C3: the worker groups are pairwise disjoint, a worker's engine holds only
\* entries of its own group's underlyings, and every token of the aggregate
\* belongs to exactly one group and was contributed by that group's worker
\* alone.
C3_DisjointGroupsOneContributor ==
  /\ \A v, w \in Workers :
       v # w => Range(WORKER_GROUPS[v]) \cap Range(WORKER_GROUPS[w]) = {}
  /\ \A w \in Workers :
       \A t \in workerChain[w] : InstrumentOf(t).name \in Range(WORKER_GROUPS[w])
  /\ \A t \in aggregatedOptionChain :
       LET owners == { w \in Workers : InstrumentOf(t).name \in Range(WORKER_GROUPS[w]) }
       IN  Cardinality(owners) = 1 /\ contributors[t] = owners

\* The aggregate holds tokens contributed by two different workers.
C3_Witness ==
  /\ {101, 201} \subseteq aggregatedOptionChain
  /\ contributors[101] = {1} /\ contributors[201] = {2}

(***************************************************************************)
(* Properties of the group's start-up and shutdown (SpecLife).             *)
(***************************************************************************)

SubscribeSent == \E w \in Workers : \E k \in 1..Len(toWorker[w]) : toWorker[w][k].type = "subscribe"

\* Worker w's 'ready' was sent and has been received.
ReportedReady(w) ==
  /\ readyPromise[w] = "resolved"
  /\ wPc[w] \in {"ready", "exited"}
  /\ \A k \in 1..Len(toCoord[w]) : toCoord[w][k].type # "ready"

\* C4: the server is started, and the first 'subscribe' sent, only after
\* every spawned worker has sent 'ready'; the server never runs while some
\* worker has not reported ready.
C4_ServerOnlyAfterAllReady ==
  (serverStarted \/ SubscribeSent \/ coordPc \in {"delay", "steady"}) =>
    \A w \in Workers : ReportedReady(w)

\* The server runs and 'subscribe' is out to every worker.
C4_Witness ==
  /\ serverStarted /\ coordPc = "steady"
  /\ \A w \in Workers : toWorker[w] = << Msg("subscribe", {}) >>

\* C5: once a worker's start-up has failed at the coordinator (an 'error'
\* message, an 'error' event or the readiness timeout, which stays armed for
\* as long as the worker has not reported), every spawned worker has been
\* killed, the coordinator has exited non-zero and the server was never
\* started.
C5_StartupFailureAbortsGroup ==
  /\ (\E w \in Workers : readyPromise[w] = "rejected") =>
       /\ coordExit = "exit1"
       /\ ~serverStarted
       /\ \A w \in Workers : Running(w) => sigterm[w] /\ workerKilled[w]
  /\ (coordExit = "running" /\ coordPc = "awaiting") =>
       \A w \in Workers : readyPromise[w] = "pending" => timeoutArmed[w]
  /\ serverStarted => \A w \in Workers : readyPromise[w] = "resolved"

\* A partially ready group was aborted: one worker had reported ready and is
\* killed, another failed.
C5_Witness ==
  /\ coordExit = "exit1" /\ ~serverStarted
  /\ \E v, w \in Workers :
       /\ readyPromise[v] = "rejected"
       /\ readyPromise[w] = "resolved" /\ Running(w) /\ sigterm[w]

\* C6: once shutdown was requested, the coordinator has exited only when
\* every worker has exited or was force-killed: it leaves no worker alive.
C6_ShutdownLeavesNoWorker ==
  (shutdownPc # "idle" /\ coordExit # "running") => \A w \in Workers : ~Running(w)

\* shutdown:145-147  'shutdown' goes to every worker whose channel is open.
ShutdownSentToAll ==
  [][shutdownPc = "idle" /\ shutdownPc' = "waiting" =>
       \A w \in Workers :
         wPc[w] # "exited" => toWorker'[w] = Append(toWorker[w], Msg("shutdown", {}))]_vars

\* worker.ts:90-94, 114-118  a worker that exits with code 0 has disconnected
\* its feed.
DisconnectBeforeExit == \A w \in Workers : wExit[w] = "exit0" => ~feedConnected[w]

\* shutdown:163-170  the exit of shutdown() itself leaves no worker running.
ShutdownExitLeavesNoWorker == coordExit = "exit0" => \A w \in Workers : ~Running(w)

(***************************************************************************)
(* Claims on the margin batch fetcher (checked under SpecMargin).          *)
(***************************************************************************)

Count(s, x) == Cardinality({ k \in 1..Len(s) : s[k] = x })

SymbolsOf(margins) == [k \in 1..Len(margins) |-> margins[k].tradingsymbol]

\* C7: when a margin fetch for a batch has finished, every requested symbol
\* is either resolved exactly once (its margin is in the returned list
\* once) or in the logged failure list, never both, never neither.
C7_ResolvedOrLoggedFailed ==
  lastFetch.outcome # "none" =>
    \A ts \in Range(lastFetch.tradingsymbols) :
      Count(SymbolsOf(lastFetch.returned), ts) + Count(lastFetch.failedLogged, ts) = 1

\* C8: a getOrderMargins call issues at most MAX_RETRIES RPC calls, never an
\* empty one (it stops as soon as nothing is unresolved), and every request
\* names only symbols that no earlier attempt resolved.
C8_AtMostThreeCallsOnlyUnresolved ==
  /\ \A i \in 1..Len(marginRuns) :
       LET f == marginRuns[i].fetch
           n == Len(f.requests)
       IN  /\ n >= 1 /\ n <= MAX_RETRIES
           /\ \A k \in 1..n : f.requests[k] # << >>
           /\ \A k \in 2..n : Range(f.requests[k]) \subseteq Range(f.requests[k - 1])
           /\ Range(f.requests[n]) \cap Range(SymbolsOf(f.allMargins)) = {}
  /\ Len(lastFetch.requests) <= MAX_RETRIES
  /\ \A k \in 1..Len(lastFetch.requests) : lastFetch.requests[k] # << >>
  /\ lastFetch.outcome = "returned" =>
       Range(lastFetch.failedLogged) \cap Range(SymbolsOf(lastFetch.returned)) = {}

\* C8 witness: a finished fetch that used all three attempts and retried
\* fewer symbols than it first asked for.
C8_Witness ==
  /\ lastFetch.outcome = "returned"
  /\ Len(lastFetch.requests) = MAX_RETRIES
  /\ Len(lastFetch.requests[2]) < Len(lastFetch.requests[1])

\* C9: a margin resolved in any attempt of a finished fetch is merged into
\* its (still live) option-chain entry, whatever the later attempts did.
C9_PartialSuccessMerged ==
  lastFetch.outcome # "none" =>
    \A k \in 1..Len(lastFetch.resolved) :
      \A t \in DOMAIN optionChain :
        optionChain[t].tradingsymbol = lastFetch.resolved[k].tradingsymbol =>
          optionChain[t].orderMargin = lastFetch.resolved[k].total

\* C10: at most one margin update run is in flight and the guard is set
\* exactly while it is; a run starts only from a state with no run in
\* flight, and the end of a run starts no other run.
C10_AtMostOneRun ==
  /\ [](Len(marginRuns) <= 1 /\ (isFetchingMargins <=> Len(marginRuns) = 1))
  /\ [][Len(marginRuns') > Len(marginRuns) => ~isFetchingMargins /\ marginRuns = << >>]_vars
  /\ [][Len(marginRuns') < Len(marginRuns) => ~isFetchingMargins' /\ marginRuns' = << >>]_vars

\* C10 witness: a run in flight whose batch an earlier, finished fetch
\* already asked for: a later run, started after the previous one ended.
C10_Witness ==
  /\ isFetchingMargins
  /\ Len(marginRuns) = 1
  /\ lastFetch.outcome # "none"
  /\ lastFetch.tradingsymbols = marginRuns[1].fetch.tradingsymbols
  /\ Len(marginRuns[1].fetch.requests) = 2

\* C11: a step changes orderMargin only for entries whose trading symbol
\* is among the margins the settled fetch returned, to the total returned;
\* every other entry keeps its previous orderMargin, and no entry appears or
\* disappears.
C11_OnlyResolvedChange ==
  [][/\ DOMAIN optionChain' = DOMAIN optionChain
     /\ \A t \in DOMAIN optionChain :
          optionChain'[t].orderMargin # optionChain[t].orderMargin =>
            \E k \in 1..Len(lastFetch'.returned) :
              /\ lastFetch'.returned[k].tradingsymbol = optionChain[t].tradingsymbol
              /\ lastFetch'.returned[k].total = optionChain'[t].orderMargin]_vars

\* An entry with a margin from an earlier run went through a fetch that left
\* its symbol unresolved, and still has that margin.
C11_Witness ==
  /\ lastFetch.outcome = "returned"
  /\ \E t \in DOMAIN optionChain :
       /\ Count(lastFetch.failedLogged, optionChain[t].tradingsymbol) = 1
       /\ optionChain[t].orderMargin # 0

\* C13: of one (underlying, expiry) exactly the calls with a strike >= the
\* lowest call strike that is >= Ceiling and exactly the puts with a strike
\* <= the highest put strike that is <= Floor are selected; a side with no
\* strike within its bound selects nothing.
C13_StrikeFilter ==
  filterCall.done =>
    LET calls    == { o \in filterCall.options : o.instrumentType = "CE" }
        puts     == { o \in filterCall.options : o.instrumentType = "PE" }
        reaching == { o \in calls : o.strike >= filterCall.ceBound }
        under    == { o \in puts : o.strike <= filterCall.peBound }
    IN  /\ { o \in filterCall.result : o.instrumentType = "CE" } =
             IF reaching = {} THEN {}
             ELSE LET lowest == CHOOSE o \in reaching : \A q \in reaching : o.strike <= q.strike
                  IN  { o \in calls : o.strike >= lowest.strike }
        /\ { o \in filterCall.result : o.instrumentType = "PE" } =
             IF under = {} THEN {}
             ELSE LET highest == CHOOSE o \in under : \A q \in under : o.strike >= q.strike
                  IN  { o \in puts : o.strike <= highest.strike }

\* A filter call with calls on both sides of the ceiling and no put under
\* the floor: the calls from the ceiling up are kept, no put is.
C13_Witness ==
  /\ filterCall.done
  /\ filterCall.ceBound = 2 /\ filterCall.peBound = 0
  /\ filterCall.options = OptionRows
  /\ { o.instrumentToken : o \in filterCall.result } = {21, 31}

\* C14: in every state, also between the awaits of a running subscribeAll
\* and with ticks and margin merges in between, the token of every live
\* entry is a subscribed token.
C14_LiveEntriesSubscribed == DOMAIN optionChain \subseteq subscribedTokens

\* Two subscribeAll calls are running and a margin fetch that started on
\* an earlier selection has been merged: the live entry was selected again
\* after both sets were cleared, has been ticked and carries a margin.
C14_Witness ==
  /\ Len(subscribeRuns) = 2
  /\ lastFetch.outcome = "returned"
  /\ \E t \in DOMAIN optionChain :
       optionChain[t].bid # 0 /\ optionChain[t].orderMargin # 0

\* C12: when the last subscribeAll in flight ends, an earlier one has ended
\* before, and neither a future's price nor the sdMultiplier has changed
\* since that earlier one began, the subscribed tokens and the live entries
\* are exactly the tokens the earlier one left.
C12_SelectionIdempotent ==
  [][(/\ subscribeRuns # << >> /\ subscribeRuns' = << >>
      /\ selHist.ended /\ ~selHist.moved)
     => /\ subscribedTokens' = selHist.tokens
        /\ DOMAIN optionChain' = selHist.tokens]_vars

\* A repeated subscribeAll has ended with nothing moved, and both contracts
\* of the engine are subscribed.
C12_Witness ==
  /\ subscribeRuns = << >>
  /\ selHist.repeated
  /\ subscribedTokens = {101, 102}

\* The day the expiry string of the queries stands for (a string that is no
\* date stands for none).
ExpiryIsDate == ~parseExpiryDate(expiryDate).threw

ExpiryDay == parseExpiryDate(expiryDate).day

\* C15: with the calendar loaded, a query for an expiry not before today
\* returns a value >= 0, and no more than the query before it on the same day;
\* the same holds of what a recomputation returns at the two clocks, whatever
\* the holiday type of today.
C15_NonNegativeNonIncreasing ==
  (/\ minutesCall.done /\ minutesCall.loaded
   /\ ExpiryIsDate /\ isValidExpiryDate(expiryDate, minutesCall.day)
   /\ ExpiryDay >= minutesCall.day)
  => /\ ~minutesCall.threw
     /\ minutesCall.result >= 0 /\ minutesCall.fresh >= 0
     /\ minutesCall.prevResult # Undefined =>
          /\ minutesCall.result <= minutesCall.prevResult
          /\ minutesCall.fresh <= minutesCall.prevFresh

\* Two queries of a same-day expiry on a morning holiday, the second during
\* the evening session: the recomputation has dropped.
C15_Witness ==
  /\ minutesCall.done /\ minutesCall.loaded
  /\ ExpiryIsDate /\ ExpiryDay = minutesCall.day
  /\ HolidayTypeOf(holidayCache.types, minutesCall.day) = "morning"
  /\ minutesCall.prevFresh # Undefined
  /\ minutesCall.fresh > 0
  /\ minutesCall.fresh < minutesCall.prevFresh

\* C16: the memo of an expiry is short-lived: after a query of a same-day
\* expiry has returned a positive value, with the clock running and the
\* queries going on, a query eventually returns 0 (the value is recomputed
\* and reaches 0 once the day's last session has ended).
C16_EventuallyRecomputed ==
  (/\ minutesCall.done /\ ExpiryIsDate
   /\ ExpiryDay = minutesCall.day
   /\ minutesCall.result > 0)
  ~> (minutesCall.done /\ minutesCall.result = 0)

\* C17: a query for an expiry before today returns 0, whether the expiry is
\* within the accepted window of dates or further in the past.
C17_PastExpiryIsZero ==
  (minutesCall.done /\ ExpiryIsDate /\ ExpiryDay < minutesCall.day)
  => minutesCall.result = 0

\* C18: a query for an expiry string that is empty, is no date, or is a
\* date outside [today - 1 year, today + 5 years] returns 0 and does not
\* throw.
C18_BadExpiryIsZero ==
  (minutesCall.done /\ (\/ expiryDate.form \in {"empty", "blank"}
                        \/ ~ExpiryIsDate
                        \/ ExpiryDay < YearsFrom(minutesCall.day, -1)
                        \/ ExpiryDay > YearsFrom(minutesCall.day, 5)))
  => minutesCall.result = 0 /\ ~minutesCall.threw

\* A query of the string that matches the ISO pattern and is no date has
\* been answered, with a warning.
C18_Witness ==
  /\ minutesCall.done
  /\ expiryDate.form = "isoInvalid"
  /\ minutesCall.warned
  /\ expiryDate \in DOMAIN expiryMinutesMap

\* C20: a query made while the holiday calendar is not loaded logs a warning
\* and returns 0.
C20_NotLoadedIsZero ==
  (minutesCall.done /\ ~minutesCall.loaded)
  => minutesCall.result = 0 /\ minutesCall.warned

\* The minutes the claim gives a day of the loaded calendar: none on a
\* weekend or a full closure, the evening session on a morning holiday, the
\* morning session on an evening holiday, both sessions otherwise.
ClaimDayMinutes(day) ==
  LET evening == IF isUsDst(day, 0) THEN 390 ELSE 415
      type    == HolidayTypeOf(holidayCache.types, day)
  IN  IF IsWeekend(day) \/ type = "full" THEN 0
      ELSE IF type = "morning" THEN evening
      ELSE IF type = "evening" THEN 480
      ELSE 480 + evening

RECURSIVE ClaimRangeMinutes(_, _)
ClaimRangeMinutes(startDate, endDate) ==
  IF startDate > endDate THEN 0
  ELSE ClaimDayMinutes(startDate) + ClaimRangeMinutes(startDate + 1, endDate)

\* C19: with the calendar loaded, the minutes of a range are the sum of the
\* minutes of its days that are not weekend days, each by its holiday type;
\* a full-closure day adds nothing: the range counts what the days before it
\* and the days after it count.
C19_RangeIsSumOfDays ==
  (rangeCall.done /\ ~rangeCall.threw /\ holidayCache.loaded)
  => /\ rangeCall.result = ClaimRangeMinutes(rangeCall.startDate, rangeCall.endDate)
     /\ \A day \in rangeCall.startDate..rangeCall.endDate :
          HolidayTypeOf(holidayCache.types, day) = "full" =>
            rangeCall.result = ClaimRangeMinutes(rangeCall.startDate, day - 1)
                               + ClaimRangeMinutes(day + 1, rangeCall.endDate)

\* The range from the Friday to the Monday with a full closure on the Friday
\* and a morning holiday on the Monday counts the Monday's evening session.
C19_Witness ==
  /\ rangeCall.done /\ holidayCache.loaded
  /\ rangeCall.startDate = 0 /\ rangeCall.endDate = 3
  /\ HolidayTypeOf(holidayCache.types, 0) = "full"
  /\ HolidayTypeOf(holidayCache.types, 3) = "morning"
  /\ rangeCall.result = 415

(***************************************************************************)
(* Claims on the sigma chain and the selection bounds (SpecSigma).         *)
(***************************************************************************)

\* C21: calculateSigmaXI returns sigmaN + sigmaX for a call and sigmaN - sigmaX
\* for a put when both deviations are positive, and 0 when either is <= 0.
C21_SigmaXI ==
  sigmaXICall.done =>
    LET c == sigmaXICall
    IN  /\ (c.sigmaN > 0 /\ c.sigmaX > 0) =>
             c.result = IF c.optionType = "CE" THEN c.sigmaN + c.sigmaX
                        ELSE c.sigmaN - c.sigmaX
        /\ (c.sigmaN <= 0 \/ c.sigmaX <= 0) => c.result = 0

\* A put whose error deviation exceeds its sigmaN: the result is negative.
C21_Witness ==
  /\ sigmaXICall.done /\ sigmaXICall.optionType = "PE"
  /\ sigmaXICall.sigmaN = 1 /\ sigmaXICall.sigmaX = 2 /\ sigmaXICall.result = -1

\* C25: with a volatility sample, the ceiling subscribe selects with is
\* ltp * (1 + x/100) for the call's sigmaXI, the floor is ltp * (1 - x/100)
\* for the put's sigmaXI, and the two differ whenever sigmaX > 0.
C25_AsymmetricBounds ==
  (sigmaCall.done /\ Truthy(sigmaCall.av)) =>
    LET c == sigmaCall
    IN  /\ c.bounds.ceBound = c.ltp + (c.ltp * c.ce.sigmaXI) \div 100
        /\ c.bounds.peBound = c.ltp - (c.ltp * c.pe.sigmaXI) \div 100
        /\ c.ce.sigmaX > 0 => c.bounds.ceBound # c.bounds.peBound

\* C30: sd, sigmaN, sigmaX and sigmaXI are 0 whenever the annualized
\* volatility is <= 0 or T is 0 or N is 0, and no denominator evaluated is 0.
C30_ChainShortCircuits ==
  sigmaCall.done =>
    LET c == sigmaCall
    IN  /\ 0 \notin c.denominators
        /\ (c.av <= 0 \/ c.T = 0 \/ c.N = 0) =>
             /\ c.sd = 0
             /\ c.ce = NoSigmas
             /\ c.pe = NoSigmas

(***************************************************************************)
(* Claims on the volatility service (SpecVol, SpecVolFair).                *)
(***************************************************************************)

\* C22: a failed poll leaves every stored sample as it was, and a stored
\* sample never becomes absent again.
C22_FailureKeepsSample ==
  [][/\ \A u \in CONFIG_SYMBOLS :
          (volPolls[u].pc \in Fetching /\ volPolls'[u].pc \notin Fetching
             /\ volPolls'[u].failed) => volValues' = volValues
     /\ DOMAIN volValues \subseteq DOMAIN volValues']_vars

\* The second poll of COPPER has failed and its sample of the first is kept.
C22_Witness ==
  /\ volPolls["COPPER"].pc = "stopped" /\ volPolls["COPPER"].failed
  /\ "COPPER" \in DOMAIN volValues

\* C23: every underlying is polled again and again, and a numeric override
\* that stays is eventually the stored sample of its underlying.
C23_OverrideEventuallyReflected ==
  /\ \A u \in Range(WORKER_GROUPS[1]) : []<>(volPolls[u].pc \in Fetching)
  /\ \A value \in VixValues :
       <>[](vixSetting["COPPER"] = value)
         => <>[]("COPPER" \in DOMAIN volValues /\ volValues["COPPER"].av = value)

\* C24: the first polls of all underlyings are started together, whatever
\* becomes of each: no poll waits for another underlying's poll.
C24_PollsIndependent ==
  (\E u \in CONFIG_SYMBOLS : volPolls[u].pc # "idle")
    => \A u \in Range(symbolsFilter) : volPolls[u].pc # "idle"

\* The first poll of GOLD has not completed, that of GOLDM has failed, and
\* COPPER has stored the samples of both its polls.
C24_Witness ==
  /\ volPolls["GOLD"].pc = "first" /\ "GOLD" \notin DOMAIN volValues
  /\ volPolls["GOLDM"].pc = "timer" /\ volPolls["GOLDM"].failed
  /\ volPolls["COPPER"].pc = "stopped" /\ ~volPolls["COPPER"].failed
  /\ "COPPER" \in DOMAIN volValues

(***************************************************************************)
(* Claims on the resubscribe cycle (SpecSelect).                           *)
(***************************************************************************)

\* C27: an entry is created (zeroed) only when its contract newly enters the
\* selected set: a contract of the set a subscribeAll call started from keeps
\* its working record and is never created anew by that call.
C27_WorkingRecordKept ==
  [][\A token \in DOMAIN optionChain' \ DOMAIN optionChain :
       \A i \in 1..Len(subscribeRuns) : token \notin subscribeRuns[i].oldTokens]_vars

\* C28: every full-mode request holds only tokens that were not in the old
\* set, and the unsubscribe request of a call that ends holds exactly the old
\* tokens that are not in the new set.
C28_UpstreamDiff ==
  /\ upstream.setMode \cap upstream.oldTokens = {}
  /\ upstream.ended => upstream.unsubscribe = upstream.oldTokens \ upstream.newTokens

C29_ZeroWithoutMarginOrBid ==
  [][Recompute =>
       \A token \in DOMAIN optionChain' :
         LET entry == optionChain'[token]
         IN  /\ entry.orderMargin <= 0 => entry.returnValue = 0
             /\ entry.bid = 0 => /\ entry.sellValue = 0
                                 /\ entry.returnValue = 0
                                 /\ entry.addedValue = 0]_vars

\* C31: the snapshot filter deletes nothing.  A recompute cycle leaves the
\* key set of optionChain as it was and its snapshot holds every entry that
\* passes the filter, whether or not an earlier snapshot left it out; a
\* margin run that starts asks for every live entry, in the last snapshot
\* or not.
C31_FilterNeverDeletes ==
  [][/\ Recompute =>
          /\ DOMAIN optionChain' = DOMAIN optionChain
          /\ \A token \in DOMAIN optionChain' :
               optionChain'[token].sellValue > optionChain'[token].returnValue
                 => token \in lastCycle'.optionsMap
     /\ Len(marginRuns') > Len(marginRuns) =>
          LET run == marginRuns'[Len(marginRuns')]
          IN  { run.tsToTokenMap[ts] : ts \in DOMAIN run.tsToTokenMap } = DOMAIN optionChain
    ]_vars

\* An entry that one snapshot left out is in the next one.
C31_Witness ==
  /\ lastCycle.readmitted # {}
  /\ lastCycle.readmitted \subseteq DOMAIN optionChain

\* C32: the selected token set is frozen between subscribe cycles.  A step
\* that is no step of subscribeAll (a tick of a future or of an option, a
\* volatility poll, a recompute cycle) changes neither subscribedTokens nor
\* the key set of optionChain, and while no subscribeAll is in flight the
\* set is the one the last cycle left, whatever the futures have done since.
C32_SelectionFrozen ==
  [][/\ subscribeRuns' = subscribeRuns =>
          /\ subscribedTokens' = subscribedTokens
          /\ DOMAIN optionChain' = DOMAIN optionChain
     /\ (subscribeRuns' = << >> /\ selHist'.ended) =>
          /\ subscribedTokens' = selHist'.tokens
          /\ DOMAIN optionChain' = selHist'.tokens
    ]_vars

\* After a subscribe cycle that selected GOLD's contract alone, COPPER's
\* future has got a price at which the next cycle would select COPPER's
\* contract, its option has ticked, the poll has ended and a recompute cycle
\* has run: the set is still GOLD's contract.
C32_Witness ==
  /\ subscribeRuns = << >> /\ selHist.ended
  /\ subscribedTokens = {101} /\ DOMAIN optionChain = {101}
  /\ \A e \in DOMAIN futureLtps["COPPER"] : Truthy(futureLtps["COPPER"][e])
  /\ optionChain[101].bid > 0
  /\ volPolls["GOLD"].pc = "stopped"
  /\ lastCycle.ran /\ lastCycle.live = {101}

\* C33: a failure of subscribeAll while it selects one underlying is
\* contained.  A call that has ended has called subscribe for every
\* underlying of the engine, those after the failed one included, and when
\* it ends with no other call in flight the feed has in full mode exactly
\* the subscribed tokens: the old tokens of a failed underlying were
\* unsubscribed.
C33_FailureContained ==
  upstream.ended =>
    /\ upstream.visited = Range(symbolsFilter)
    /\ subscribeRuns = << >> =>
         /\ upstream.feed = subscribedTokens
         /\ upstream.feed = DOMAIN optionChain

\* The call found no price of GOLD's future, selected COPPER's contract and
\* unsubscribed GOLD's contract, which the call before had selected.
C33_Witness ==
  /\ upstream.ended /\ subscribeRuns = << >>
  /\ upstream.failed = {"GOLD"}
  /\ 101 \in upstream.unsubscribe
  /\ subscribedTokens = {102}

\* C34: a worker whose reference-data load (market minutes, expiry cache)
\* fails at start-up has exited with a non-zero code and has not sent 'ready',
\* and a worker that reports ready has loaded its calendar.
C34_LoadFailureExits ==
  \A w \in Workers :
    /\ runtimeCache[w] = "failed" => (wPc[w] = "exited" /\ wExit[w] = "exit1")
    /\ wPc[w] = "ready" => runtimeCache[w] = "loaded"

\* C35: every publish cycle sends every connected client a snapshot message,
\* also when nothing matches its subscription: after a cycle of the engine
\* (single-process mode) or a republish of the coordinator, each client
\* still connected has been sent a message.
C35_EmptySnapshotSent ==
  [][/\ EngineRecompute => \A c \in DOMAIN clients' : engineSent'[c].sent
     /\ CoordRepublish => \A c \in DOMAIN connectedClients' : clientLast'[c].sent]_vars

\* C36: when two subscribe commands with different sdMultipliers overlap
\* (the second subscribeAll starts while the first awaits), then once both
\* have ended the subscribed tokens and the entries of the option chain are
\* the selection of the call received last, with no token that only the
\* earlier call selected.
C36_LastSubscribeWins ==
  (subscribeRuns = << >> /\ selHist.ended /\ selHist.mixed)
    => /\ subscribedTokens = selHist.lastSelected
       /\ DOMAIN optionChain = selHist.lastSelected

\* C37: a margin response that arrives after a resubscribe has dropped or
\* replaced the entries it was requested for creates no entry and is applied
\* only to tokens that are live at the merge: every step of a margin run
\* that has started leaves the keys of the option chain as they are and
\* changes nothing but orderMargin, and only of entries the response names.
C37_LateMarginNeverRecreates ==
  [][(marginRuns' # marginRuns /\ Len(marginRuns') <= Len(marginRuns))
       => /\ DOMAIN optionChain' = DOMAIN optionChain
          /\ \A t \in DOMAIN optionChain :
               /\ optionChain'[t] = [optionChain[t] EXCEPT !.orderMargin = optionChain'[t].orderMargin]
               /\ optionChain'[t] # optionChain[t]
                    => \E k \in 1..Len(lastFetch'.returned) :
                         lastFetch'.returned[k].tradingsymbol = optionChain[t].tradingsymbol
          /\ lastFetch' # lastFetch => lastFetch'.discarded \cap DOMAIN optionChain' = {}]_vars

\* A response named a token that the resubscribe in flight had dropped: it
\* was discarded and the token has no entry.
C37_Witness ==
  /\ lastFetch.outcome = "returned" /\ lastFetch.discarded # {}
  /\ subscribeRuns # << >> /\ lastFetch.discarded \cap DOMAIN optionChain = {}
  /\ lastFetch.discarded \subseteq subscribeRuns[1].oldTokens

\* C38: the reentrancy guard of the margin timer never locks out for good:
\* a run that ends, whether its batches succeeded or failed after the
\* retries, leaves isFetchingMargins false, and with RPC calls that each
\* return or fail the guard is always released again and a later tick of the
\* timer starts a new run.
C38_GuardNeverLocksOut ==
  /\ [](marginRuns = << >> => ~isFetchingMargins)
  /\ [][Len(marginRuns') < Len(marginRuns) => ~isFetchingMargins']_vars
  /\ (isFetchingMargins ~> ~isFetchingMargins)
  /\ []<>(DOMAIN optionChain # {} => isFetchingMargins)

\* A new run has started after a fetch that failed on every attempt.
C38_Witness == lastFetch.outcome = "thrown" /\ isFetchingMargins /\ marginRuns = << NewRun >>

\* A 'subscribe' waits on the channel to worker w.
SubscribeQueued(w) == \E k \in 1..Len(toWorker[w]) : toWorker[w][k].type = "subscribe"

\* C39: a worker installs its handler of coordinator messages before it
\* sends 'ready', and the coordinator sends 'subscribe' only after the 'ready'
\* of every worker: a 'subscribe' on a worker's channel finds the handler
\* installed (or the worker gone), and once it is sent every ready promise
\* has been resolved.
C39_SubscribeFindsHandler ==
  /\ \A w \in Workers :
       /\ SubscribeQueued(w) => wPc[w] \in {"ready", "exited"}
       /\ (\E k \in 1..Len(toCoord[w]) : toCoord[w][k].type = "ready")
            => wPc[w] \in {"ready", "exited"}
  /\ (coordPc = "steady" \/ \E w \in Workers : SubscribeQueued(w))
       => \A w \in Workers : readyPromise[w] = "resolved"

\* The 'subscribe' has reached the handler of one worker and still waits on
\* the channel of another.
C39_Witness ==
  /\ coordPc = "steady"
  /\ \E w \in Workers : wPc[w] = "ready" /\ toWorker[w] = << >>
  /\ \E w \in Workers : wPc[w] = "ready" /\ SubscribeQueued(w)

\* C40: after disconnect() the browser client makes no connection attempt:
\* the pending reconnect timer is cancelled and the close event of the
\* socket that disconnect() closed sets none, so while disconnect() is the
\* component's last call no timer is set and no socket is connecting or
\* open; reconnects follow unsolicited closes only, at most maxAttempts in a
\* row, the count starting again at each open.
C40_NoReconnectAfterDisconnect ==
  /\ hook.stopped => /\ hook.timers = {}
                     /\ \A i \in 1..Len(hook.sockets) :
                          hook.sockets[i] \notin {"connecting", "open"}
  /\ hook.row <= maxAttempts

====
